---- MODULE Spec2Model ----
(***************************************************************************)
(* Model of the conversational agent core.                                 *)
(*                                                                         *)
(* Part 1: the session and inactivity-timer manager of src/src/app.py      *)
(* (set_active_session, start_global_timer and its timer_callback,         *)
(* inactivity_reminder_callback, the /generate route and the WebSocket     *)
(* handlers).  The module-level globals global_timer, active_session_id    *)
(* and session_mapping are read and written by request workers and by the  *)
(* threading.Timer threads without any lock, so every access of a global   *)
(* is one step and the steps of different threads interleave.              *)
(*                                                                         *)
(* Part 2: the node executor wrapper of src/src/agent_main.py              *)
(* (node_wrapper.wrapped_func): retry, rollback, message validation.       *)
(*                                                                         *)
(* Part 3: a turn, process_agent_request of src/src/agent_main.py running  *)
(* the compiled graph (unified_response, weather_search, memory_search,    *)
(* end) on the checkpoint of the one thread id SESSION_ID, and the timeout *)
(* the /generate route arms the timer with.                                *)
(*                                                                         *)
(* Part 4: the voice files of a reply,                                     *)
(* VoiceStreamGenerator._generate_voice_files of                           *)
(* src/src/models/voice_player_manager.py and voice_file_callback of       *)
(* src/src/app.py.                                                         *)
(*                                                                         *)
(* Part 5: the node registry of src/src/nodes/registry.py.                 *)
(***************************************************************************)
EXTENDS Integers, Sequences, FiniteSets, TLC

(***************************************************************************)
(* Bounds of the model.                                                    *)
(***************************************************************************)
\* number of requests (routes and socket events) served in one run
MaxRequests == 3
\* number of request worker threads serving routes and socket events
NumWorkers == 2

Workers == 1..NumWorkers
\* every request creates at most one threading.Timer
Timers == 1..MaxRequests
\* Python's None, for a session id, a socket id and the timer handle
None == "none"
NoTimer == 0
\* client session ids (request.form['clientSessionId'], data['sessionId'])
Sessions == {"A", "B"}
\* Socket.IO connection ids (request.sid)
Sockets == {"w1"}
\* values of response['inactivity_timeout'] a turn may return
Timeouts == {-1, 60}

VARIABLES
    global_timer,       \* app.py:49  handle: a timer id or NoTimer
    active_session_id,  \* app.py:50
    session_mapping,    \* app.py:47  socket id -> client session id
    timer,              \* the threading.Timer objects and their threads
    wk,                 \* the request workers: handler, position, locals
    requests,           \* requests accepted so far
    pushed,             \* inactivity_reminder events emitted so far
    sup,                \* timers unfired across a whole set_active of another session
    disc,               \* timers unfired across a whole disconnect of the active session
    canc,               \* timers on which a returned call invoked cancel()
    touched             \* timers started before a later step of set_active or disconnect

VARIABLES
    wpc,                \* wrapped_func: "loop" at the while test, "done" after return
    original_state,     \* agent_main.py:111  the deep copy of the incoming state
    state,              \* the state the next call of the node receives
    retry_count,        \* agent_main.py:107
    calls,              \* calls of node_func made so far
    last_added,         \* the messages the latest call of node_func appended
    returned,           \* the state wrapped_func returned
    error_index,        \* the message index the returned error names, -1: none
    state_log           \* labels save_state_log was called with

evars == <<wpc, original_state, state, retry_count, calls, last_added,
           returned, error_index, state_log>>

tvars == <<global_timer, active_session_id, session_mapping, timer, wk,
           requests, pushed, sup, disc, canc, touched>>

VARIABLES
    initialization_success, \* agent_main.py:314-320  set once at import
    tpc,                \* process_agent_request: "idle", "run", "returned"
    turns,              \* turns begun so far
    reminder,           \* is_inactivity_reminder of the turn
    channels,           \* the checkpointed State of thread SESSION_ID
    gnode,              \* the node the graph runs next
    n_retry,            \* retry_count of the wrapped node that is running
    turn_result,        \* what process_agent_request returned
    armed_timeout,      \* seconds /generate armed the timer with, 0: not armed
    last_valid,         \* the latest inactivity_timeout a decision node set
    fatal,              \* the turn ended without a final state of the graph
    trace,              \* the wrapped nodes run in this turn, in order
    exhausted,          \* [node, calls] of the wrappers that used up their retries
    snapshots,          \* labels save_state_log was called with in this turn
    bad_llm,            \* the LLM gave an unusable output in this turn
    called_after_bad,   \* the decision node was called after an unusable output
    prompt,             \* the tool on top of the transcript and the tools listed
    tool_ret,           \* next_node of the latest state a tool node returned
    dec_ret,            \* the latest decision: requires_tool, whether the
                        \* reply was empty, next_node and success returned
    tool_failed,        \* the latest tool node run ended with its call failing
    files_data,         \* agent_main.py:190, 435  CURRENT_FILES_DATA
    logged,             \* what save_state_log wrote in this turn
    client_of,          \* clientSessionId of the request of each turn begun
    appended_in,        \* for each message of the transcript, the turn it
                        \* was appended in
    armed_session,      \* the session /generate armed the timer for
    returned_invalid,   \* a node returned a message validate_message rejects
    node_runs,          \* wrapped nodes run so far, over all turns
    routed              \* the latest return of a wrapped node: the node, the
                        \* next_node of the state it returned, the node the
                        \* graph goes to

gvars == <<initialization_success, tpc, turns, reminder, channels, gnode,
           n_retry, turn_result, armed_timeout, last_valid, fatal,
           trace, exhausted, snapshots, bad_llm, called_after_bad, prompt,
           tool_ret, dec_ret, tool_failed, files_data, logged,
           client_of, appended_in, armed_session, returned_invalid, routed,
           node_runs>>

VARIABLES
    v_pc,               \* _generate_voice_files: "idle", "first", "submit",
                        \* "submitted", "collect", "done"
    v_texts,            \* len(texts)
    v_ok,               \* index -> generate_voice_part succeeds
    v_finished,         \* futures the worker thread has finished
    v_initial,          \* futures finished when as_completed was called
    v_yielded,          \* futures as_completed has yielded
    completed_count,    \* voice_player_manager.py:403
    emitted             \* voice_file_ready events emitted, in order

vvars == <<v_pc, v_texts, v_ok, v_finished, v_initial, v_yielded,
           completed_count, emitted>>

VARIABLES
    NODE_REGISTRY,      \* registry.py:7  _NODE_REGISTRY
    last_registered     \* the latest register_node: the name, its entry
                        \* before, whether an error was raised

rvars == <<NODE_REGISTRY, last_registered>>

VARIABLES
    CURRENT_INPUT_TEXT, \* agent_main.py:189
    CURRENT_FILES_DATA, \* agent_main.py:190
    req                 \* each caller of process_agent_request: where it is,
                        \* the input_text and files_data it was called with,
                        \* the two its decision node read, and the entries
                        \* of the decision node so far

cvars == <<CURRENT_INPUT_TEXT, CURRENT_FILES_DATA, req>>

VARIABLES
    pending_files,      \* voice_player_manager.py:46  index -> file path
    next_index,         \* voice_player_manager.py:47
    lock,               \* voice_player_manager.py:48  the thread holding it
    qt,                 \* each thread: where it is in add_file or reset, and
                        \* the index and the file it adds
    played,             \* what was handed to player_manager.add_file since
                        \* the latest reset, in order
    add_calls           \* calls of add_file and reset begun so far

qvars == <<pending_files, next_index, lock, qt, played, add_calls>>

\* what the steps of one part leave alone: the variables of the other parts
exceptTimer == <<evars, gvars, vvars, rvars, cvars, qvars>>
exceptExec == <<tvars, gvars, vvars, rvars, cvars, qvars>>
exceptTurn == <<tvars, evars, vvars, rvars, cvars, qvars>>
exceptVoice == <<tvars, evars, gvars, rvars, cvars, qvars>>
exceptRegistry == <<tvars, evars, gvars, vvars, cvars, qvars>>
exceptGlobals == <<tvars, evars, gvars, vvars, rvars, qvars>>
exceptQueue == <<tvars, evars, gvars, vvars, rvars, cvars>>

(***************************************************************************)
(* Helpers of the timer manager.                                           *)
(***************************************************************************)
\* a request worker that serves no request
IdleWorker ==
    [op |-> "idle", pc |-> "idle", sid |-> None, ws |-> None, timeout |-> 0,
     cont |-> "idle", seen |-> {}, tgt |-> NoTimer, hit |-> FALSE]

\* the worker threads are interchangeable: the first idle one takes a request
Takes(w) == wk[w].op = "idle" /\ \A v \in Workers : v < w => wk[v].op # "idle"

\* a threading.Timer that was not constructed yet
NoTimerObject == [st |-> "none", sid |-> None, arg |-> None]

\* started, neither fired nor cancelled: Timer.run waits on self.finished
Armed(t) == timer[t].st = "waiting"
ArmedTimers == {t \in Timers : Armed(t)}
\* the callback of t has not begun
Unfired(t) == timer[t].st \in {"waiting", "cancelled"}
\* the timer thread is inside timer_callback
Running(t) == timer[t].st \in {"run_read", "run_gate", "run_fin"}

\* threading.Timer.cancel(): sets the finished event; it stops a timer that
\* still waits and has no effect on one whose callback already runs
TimerCancel(st) ==
    CASE st = "waiting" -> "cancelled"
      [] st = "created" -> "created_c"
      [] OTHER -> st

\* threading.Thread.start() of a Timer: a cancelled one ends without calling
TimerStart(st) == IF st = "created" THEN "waiting" ELSE "cancelled"

\* the next Timer object threading.Timer(...) constructs
NewTimer == Cardinality({t \in Timers : timer[t].st # "none"}) + 1

\* worker w after its set_active_session call has returned to the caller
SetActiveLeave(w) ==
    IF wk[w].cont = "idle"
    THEN IdleWorker
    ELSE [wk[w] EXCEPT !.pc = wk[w].cont, !.seen = {}, !.tgt = NoTimer]

\* history kept at every step of set_active_session and handle_disconnect
Touch == touched' = touched \cup {t \in Timers : Armed(t) \/ Running(t)}

\* history kept when a set_active_session call of worker w returns
SetActiveReturns(w) ==
    /\ sup' = sup \cup {t \in wk[w].seen : Unfired(t) /\ timer[t].sid # wk[w].sid}
    /\ canc' = canc \cup (IF wk[w].tgt = NoTimer THEN {} ELSE {wk[w].tgt})

(***************************************************************************)
(* set_active_session(session_id), app.py:53-76, one step per access of a  *)
(* global.  It is called by generate, start_global_timer and               *)
(* handle_session_activate; wk[w].cont is where the caller continues.      *)
(***************************************************************************)
\* app.py:64  if global_timer is not None:   (the first access of a global
\* in a call; a caller whose preceding code touches no global does it in the
\* same step)
SetActiveEnter(rec) ==
    [rec EXCEPT !.pc = IF global_timer # NoTimer THEN "sa_cancel" ELSE "sa_set",
                !.seen = ArmedTimers,
                !.tgt = NoTimer]

SaTest(w) ==
    /\ wk[w].pc = "sa_test"
    /\ wk' = [wk EXCEPT ![w] = SetActiveEnter(wk[w])]
    /\ UNCHANGED <<global_timer, active_session_id, session_mapping, timer,
                   requests, pushed, sup, disc, canc>>
    /\ Touch
    /\ UNCHANGED exceptTimer

\* app.py:65  global_timer.cancel(); on None the AttributeError is caught at
\* app.py:75 and the function returns without setting active_session_id
SaCancel(w) ==
    /\ wk[w].pc = "sa_cancel"
    /\ IF global_timer = NoTimer
       THEN /\ wk' = [wk EXCEPT ![w] = SetActiveLeave(w)]
            /\ SetActiveReturns(w)
            /\ UNCHANGED timer
       ELSE /\ timer' = [timer EXCEPT ![global_timer].st = TimerCancel(@)]
            /\ wk' = [wk EXCEPT ![w].pc = "sa_null", ![w].tgt = global_timer]
            /\ UNCHANGED <<sup, canc>>
    /\ UNCHANGED <<global_timer, active_session_id, session_mapping,
                   requests, pushed, disc>>
    /\ Touch
    /\ UNCHANGED exceptTimer

\* app.py:66  global_timer = None
SaNull(w) ==
    /\ wk[w].pc = "sa_null"
    /\ global_timer' = NoTimer
    /\ wk' = [wk EXCEPT ![w].pc = "sa_set"]
    /\ UNCHANGED <<active_session_id, session_mapping, timer,
                   requests, pushed, sup, disc, canc>>
    /\ Touch
    /\ UNCHANGED exceptTimer

\* app.py:70-71  active_session_id = session_id, and return
SaSet(w) ==
    /\ wk[w].pc = "sa_set"
    /\ active_session_id' = wk[w].sid
    /\ wk' = [wk EXCEPT ![w] = SetActiveLeave(w)]
    /\ SetActiveReturns(w)
    /\ UNCHANGED <<global_timer, session_mapping, timer, requests, pushed, disc>>
    /\ Touch
    /\ UNCHANGED exceptTimer

(***************************************************************************)
(* The /generate route, app.py:329-442, and start_global_timer,            *)
(* app.py:119-171.                                                         *)
(***************************************************************************)
\* app.py:340-349  read the form; set_active_session when a clientSessionId
\* was sent, none otherwise
GenerateBegin(w, sid) ==
    /\ Takes(w)
    /\ requests < MaxRequests
    /\ requests' = requests + 1
    /\ LET rec == [IdleWorker EXCEPT !.op = "generate", !.sid = sid,
                                     !.pc = "g_turn", !.cont = "g_turn"] IN
       wk' = [wk EXCEPT ![w] = IF sid # None THEN SetActiveEnter(rec) ELSE rec]
    /\ UNCHANGED <<global_timer, active_session_id, session_mapping, timer,
                   pushed, sup, disc, canc>>
    /\ IF sid # None THEN Touch ELSE UNCHANGED touched
    /\ UNCHANGED exceptTimer

\* app.py:390-426  the turn runs (process_agent_request) and returns its
\* inactivity_timeout; start_inactivity_timer, hence start_global_timer, is
\* called only for a client session and a positive timeout (so the test of
\* app.py:134 is false there), and it begins with set_active_session
GenerateTurn(w, timeout) ==
    /\ wk[w].pc = "g_turn"
    /\ LET rec == [wk[w] EXCEPT !.timeout = timeout, !.pc = "g_ret", !.cont = "sg_new"] IN
       wk' = [wk EXCEPT ![w] = IF wk[w].sid # None /\ timeout > 0
                               THEN SetActiveEnter(rec) ELSE rec]
    /\ UNCHANGED <<global_timer, active_session_id, session_mapping, timer,
                   requests, pushed, sup, disc, canc>>
    /\ IF wk[w].sid # None /\ timeout > 0 THEN Touch ELSE UNCHANGED touched
    /\ UNCHANGED exceptTimer

\* app.py:165  global_timer = threading.Timer(timeout_seconds, timer_callback)
SgNew(w) ==
    /\ wk[w].pc = "sg_new"
    /\ NewTimer \in Timers
    /\ timer' = [timer EXCEPT ![NewTimer] = [NoTimerObject EXCEPT
                     !.st = "created", !.sid = wk[w].sid]]
    /\ global_timer' = NewTimer
    /\ wk' = [wk EXCEPT ![w].pc = "sg_start"]
    /\ UNCHANGED <<active_session_id, session_mapping, requests, pushed, sup, disc, canc, touched>>
    /\ UNCHANGED exceptTimer

\* app.py:166  global_timer.start(): the global is read again.  On None
\* (AttributeError) and on a timer that was started already (RuntimeError)
\* the exception is caught at app.py:170
SgStart(w) ==
    /\ wk[w].pc = "sg_start"
    /\ IF global_timer # NoTimer /\ timer[global_timer].st \in {"created", "created_c"}
       THEN timer' = [timer EXCEPT ![global_timer].st = TimerStart(@)]
       ELSE UNCHANGED timer
    /\ wk' = [wk EXCEPT ![w] = IdleWorker]
    /\ UNCHANGED <<global_timer, active_session_id, session_mapping,
                   requests, pushed, sup, disc, canc, touched>>
    /\ UNCHANGED exceptTimer

\* app.py:429-435  return jsonify(...) of a turn that started no timer
GenerateReturn(w) ==
    /\ wk[w].pc = "g_ret"
    /\ wk' = [wk EXCEPT ![w] = IdleWorker]
    /\ UNCHANGED <<global_timer, active_session_id, session_mapping, timer,
                   requests, pushed, sup, disc, canc, touched>>
    /\ UNCHANGED exceptTimer

(***************************************************************************)
(* handle_session_activate, app.py:564-591.                                *)
(***************************************************************************)
\* app.py:569-587  record the mapping, then set_active_session, then
\* emit('session_activated', ...)
SessionActivate(w, ws, sid) ==
    /\ Takes(w)
    /\ requests < MaxRequests
    /\ requests' = requests + 1
    /\ session_mapping' = [session_mapping EXCEPT ![ws] = sid]
    /\ wk' = [wk EXCEPT ![w] = [IdleWorker EXCEPT
                  !.op = "activate", !.sid = sid, !.ws = ws,
                  !.pc = "sa_test", !.cont = "idle"]]
    /\ UNCHANGED <<global_timer, active_session_id, timer, pushed, sup, disc, canc, touched>>
    /\ UNCHANGED exceptTimer

(***************************************************************************)
(* handle_disconnect, app.py:527-562.  Nothing catches an exception here:  *)
(* it ends the handler.                                                    *)
(***************************************************************************)
\* app.py:536-538  client_session_id = session_mapping.get(request.sid);
\* without a mapping the handler only warns and returns
DisconnectBegin(w, ws) ==
    /\ Takes(w)
    /\ requests < MaxRequests
    /\ requests' = requests + 1
    /\ wk' = [wk EXCEPT ![w] =
                 IF session_mapping[ws] = None
                 THEN IdleWorker
                 ELSE [IdleWorker EXCEPT !.op = "disconnect", !.ws = ws,
                                         !.sid = session_mapping[ws], !.pc = "d_cmp"]]
    /\ UNCHANGED <<global_timer, active_session_id, session_mapping, timer,
                   pushed, sup, disc, canc, touched>>
    /\ UNCHANGED exceptTimer

\* app.py:542  if active_session_id == client_session_id:
DCmp(w) ==
    /\ wk[w].pc = "d_cmp"
    /\ IF active_session_id = wk[w].sid
       THEN wk' = [wk EXCEPT ![w].pc = "d_test", ![w].hit = TRUE,
                             ![w].seen = ArmedTimers]
       ELSE wk' = [wk EXCEPT ![w].pc = "d_del"]
    /\ UNCHANGED <<global_timer, active_session_id, session_mapping, timer,
                   requests, pushed, sup, disc, canc>>
    /\ Touch
    /\ UNCHANGED exceptTimer

\* app.py:546  if global_timer is not None:
DTest(w) ==
    /\ wk[w].pc = "d_test"
    /\ wk' = [wk EXCEPT ![w].pc = IF global_timer # NoTimer THEN "d_cancel" ELSE "d_clear"]
    /\ UNCHANGED <<global_timer, active_session_id, session_mapping, timer,
                   requests, pushed, sup, disc, canc>>
    /\ Touch
    /\ UNCHANGED exceptTimer

\* app.py:547  global_timer.cancel(); on None the AttributeError ends the handler
DCancel(w) ==
    /\ wk[w].pc = "d_cancel"
    /\ IF global_timer = NoTimer
       THEN /\ wk' = [wk EXCEPT ![w] = IdleWorker]
            /\ UNCHANGED timer
       ELSE /\ timer' = [timer EXCEPT ![global_timer].st = TimerCancel(@)]
            /\ wk' = [wk EXCEPT ![w].pc = "d_null", ![w].tgt = global_timer]
    /\ UNCHANGED <<global_timer, active_session_id, session_mapping,
                   requests, pushed, sup, disc, canc>>
    /\ Touch
    /\ UNCHANGED exceptTimer

\* app.py:548  global_timer = None
DNull(w) ==
    /\ wk[w].pc = "d_null"
    /\ global_timer' = NoTimer
    /\ wk' = [wk EXCEPT ![w].pc = "d_clear"]
    /\ UNCHANGED <<active_session_id, session_mapping, timer,
                   requests, pushed, sup, disc, canc>>
    /\ Touch
    /\ UNCHANGED exceptTimer

\* app.py:552  active_session_id = None
DClear(w) ==
    /\ wk[w].pc = "d_clear"
    /\ active_session_id' = None
    /\ wk' = [wk EXCEPT ![w].pc = "d_del"]
    /\ UNCHANGED <<global_timer, session_mapping, timer,
                   requests, pushed, sup, disc, canc>>
    /\ Touch
    /\ UNCHANGED exceptTimer

\* app.py:555-562  del session_mapping[socketio_session_id] and return; a
\* KeyError (the key was deleted by a concurrent disconnect) ends the handler
DDel(w) ==
    /\ wk[w].pc = "d_del"
    /\ wk' = [wk EXCEPT ![w] = IdleWorker]
    /\ IF session_mapping[wk[w].ws] = None
       THEN UNCHANGED <<session_mapping, disc, canc>>
       ELSE /\ session_mapping' = [session_mapping EXCEPT ![wk[w].ws] = None]
            /\ disc' = IF wk[w].hit THEN disc \cup {t \in wk[w].seen : Unfired(t)} ELSE disc
            /\ canc' = canc \cup (IF wk[w].tgt = NoTimer THEN {} ELSE {wk[w].tgt})
    /\ UNCHANGED <<global_timer, active_session_id, timer, requests, pushed, sup>>
    /\ Touch
    /\ UNCHANGED exceptTimer

(***************************************************************************)
(* The thread of a threading.Timer and timer_callback, app.py:139-163,     *)
(* with inactivity_reminder_callback, app.py:78-117.                       *)
(***************************************************************************)
\* Timer.run: the interval has passed and finished is not set, so the
\* function is called.  app.py:145-152: it runs the reminder turn,
\* process_agent_request("", [], is_auto_response=True, is_inactivity_reminder=True)
TimerFire(t) ==
    /\ timer[t].st = "waiting"
    /\ timer' = [timer EXCEPT ![t].st = "run_read"]
    /\ UNCHANGED <<global_timer, active_session_id, session_mapping, wk,
                   requests, pushed, sup, disc, canc, touched>>
    /\ UNCHANGED exceptTimer

\* app.py:154 (and 160)  inactivity_reminder_callback(active_session_id, ...):
\* the argument is the global as it is now, not the session of the closure
TimerReadActive(t) ==
    /\ timer[t].st = "run_read"
    /\ timer' = [timer EXCEPT ![t].st = "run_gate", ![t].arg = active_session_id]
    /\ UNCHANGED <<global_timer, active_session_id, session_mapping, wk,
                   requests, pushed, sup, disc, canc, touched>>
    /\ UNCHANGED exceptTimer

\* app.py:90-111  if session_id != active_session_id: return; otherwise
\* socketio.emit('inactivity_reminder', ...) and the speech synthesis of the
\* reminder, both for session_id
TimerGate(t) ==
    /\ timer[t].st = "run_gate"
    /\ pushed' = IF timer[t].arg # active_session_id
                 THEN pushed
                 ELSE pushed \cup {[t |-> t, for |-> timer[t].sid,
                                    to |-> timer[t].arg, late |-> t \in canc]}
    /\ timer' = [timer EXCEPT ![t].st = "run_fin", ![t].arg = None]
    /\ UNCHANGED <<global_timer, active_session_id, session_mapping, wk,
                   requests, sup, disc, canc, touched>>
    /\ UNCHANGED exceptTimer

\* app.py:161-163  finally: global_timer = None
TimerFinally(t) ==
    /\ timer[t].st = "run_fin"
    /\ global_timer' = NoTimer
    /\ timer' = [timer EXCEPT ![t].st = "done"]
    /\ UNCHANGED <<active_session_id, session_mapping, wk,
                   requests, pushed, sup, disc, canc, touched>>
    /\ UNCHANGED exceptTimer

(***************************************************************************)
(* The timer manager as a whole.                                           *)
(***************************************************************************)
\* app.py:45-51 and no request in progress
TimerInit ==
    /\ global_timer = NoTimer
    /\ active_session_id = None
    /\ session_mapping = [s \in Sockets |-> None]
    /\ timer = [t \in Timers |-> NoTimerObject]
    /\ wk = [w \in Workers |-> IdleWorker]
    /\ requests = 0
    /\ pushed = {}
    /\ sup = {}
    /\ disc = {}
    /\ canc = {}
    /\ touched = {}

WorkerStep(w) ==
    \/ \E sid \in Sessions \cup {None} : GenerateBegin(w, sid)
    \/ \E timeout \in Timeouts : GenerateTurn(w, timeout)
    \/ SaTest(w)
    \/ SaCancel(w)
    \/ SaNull(w)
    \/ SaSet(w)
    \/ SgNew(w)
    \/ SgStart(w)
    \/ GenerateReturn(w)
    \/ \E ws \in Sockets, sid \in Sessions : SessionActivate(w, ws, sid)
    \/ \E ws \in Sockets : DisconnectBegin(w, ws)
    \/ DCmp(w)
    \/ DTest(w)
    \/ DCancel(w)
    \/ DNull(w)
    \/ DClear(w)
    \/ DDel(w)

TimerStep(t) ==
    \/ TimerFire(t)
    \/ TimerReadActive(t)
    \/ TimerGate(t)
    \/ TimerFinally(t)

TimerNext ==
    \/ \E w \in Workers : WorkerStep(w)
    \/ \E t \in Timers : TimerStep(t)

(***************************************************************************)
(* Part 2: node_wrapper.wrapped_func, agent_main.py:90-186.                *)
(***************************************************************************)
\* agent_main.py:106
MAX_RETRY_COUNT == 10
\* messages a single call of a node appends at most
MaxAdded == 2
\* messages of the transcript the wrapped node is entered with, at most
MaxPre == 1

\* the keys of additional_kwargs["node_info"], message_validator.py:50
RequiredFields == {"node_name", "node_type", "timestamp"}
\* what a message carries as node_info: a dict with these keys, or nothing
NodeInfos ==
    {[present |-> TRUE, fields |-> RequiredFields]}
    \cup {[present |-> TRUE, fields |-> RequiredFields \ {f}] : f \in RequiredFields}
    \cup {[present |-> FALSE, fields |-> {}]}
\* a message: the call of the node that made it (0: before the wrapper was
\* entered) and its node_info
Messages(by) == [by : {by}, info : NodeInfos]
ValidMessages(by) == [by : {by}, info : {[present |-> TRUE, fields |-> RequiredFields]}]

SeqsUpTo(S, n) == UNION {[1..k -> S] : k \in 0..n}

Range(f) == {f[x] : x \in DOMAIN f}

\* a dict without the key (success is "True" or "False" when it is there)
Absent == "absent"

\* MessageValidator.validate_message, message_validator.py:22-53
ValidateMessage(m) == m.info.present /\ RequiredFields \subseteq m.info.fields

\* MessageValidator.validate_messages, message_validator.py:56-77
ValidateMessages(msgs) == \A i \in 1..Len(msgs) : ValidateMessage(msgs[i])

\* the index (from 0) of the last message that fails validate_message
FirstInvalidLast(msgs) ==
    CHOOSE i \in 0..(Len(msgs) - 1) :
        /\ ~ValidateMessage(msgs[i + 1])
        /\ \A j \in (i + 1)..(Len(msgs) - 1) : ValidateMessage(msgs[j + 1])

\* message_validator.py:70-75  the index (from 0) of the first message that
\* fails validate_message, which the error "メッセージ[i]が無効です" names
FirstInvalid(msgs) ==
    CHOOSE i \in 0..(Len(msgs) - 1) :
        /\ ~ValidateMessage(msgs[i + 1])
        /\ \A j \in 0..(i - 1) : ValidateMessage(msgs[j + 1])

\* what one call of a node does, as the nodes of src/src/nodes do it: the
\* result is {**state, ...} with messages = state["messages"] + [new ...]
\* and the keys the node sets
NodeOutcomes(by) ==
    [added : SeqsUpTo(Messages(by), MaxAdded),
     success : {"True", "False", Absent},
     error : {Absent, "node error"},
     response : {"", "reply"},
     next_node : {"end", "tool"},
     inactivity_timeout : {30, 60}]

NodeFunc(st, o) ==
    [st EXCEPT !.messages = st.messages \o o.added,
               !.success = o.success,
               !.error = IF o.error = Absent THEN st.error ELSE o.error,
               !.response = o.response,
               !.next_node = o.next_node,
               !.inactivity_timeout = o.inactivity_timeout]

\* agent_main.py:132-136  a result without "success" is a failure
WithSuccess(res) ==
    IF res.success = Absent
    THEN [res EXCEPT !.success = "False", !.error = "no success flag"]
    ELSE res

\* a retry that goes on from the failed result instead of the saved copy
RollbackLeaky(orig, res) ==
    [res EXCEPT !.error = IF res.error = Absent THEN "node failed" ELSE res.error]

\* a retry that keeps the response of the failed call
RollbackKeepsResponse(orig, res) ==
    [orig EXCEPT !.error = IF res.error = Absent THEN "node failed" ELSE res.error,
                 !.response = res.response]

\* agent_main.py:161-162  state = copy.deepcopy(original_state), keeping only
\* the error of the failed attempt
RollbackState(orig, res) ==
    [orig EXCEPT !.error = IF res.error = Absent THEN "node failed" ELSE res.error]

\* the states a node is entered with: the initial state of a turn
\* (agent_main.py:421-431) with the transcript of the session so far
EntryStates ==
    [messages : SeqsUpTo(ValidMessages(0), MaxPre),
     success : {"False"},
     error : {Absent},
     response : {""},
     next_node : {Absent},
     inactivity_timeout : {60}]

\* wrapped_func has not returned
NotReturned ==
    [messages |-> <<>>, success |-> Absent, error |-> Absent, response |-> "",
     next_node |-> Absent, inactivity_timeout |-> 60]

ExecInit ==
    /\ wpc = "loop"
    /\ original_state \in EntryStates
    /\ state = original_state
    /\ retry_count = 0
    /\ calls = 0
    /\ last_added = <<>>
    /\ returned = NotReturned
    /\ error_index = -1
    /\ state_log = <<>>

\* agent_main.py:113-129  one pass of the loop whose result has a message
\* that fails the validation: return the original state with success False
CallInvalid(o) ==
    /\ wpc = "loop"
    /\ retry_count < MAX_RETRY_COUNT
    /\ LET result == NodeFunc(state, o) IN
       /\ ~ValidateMessages(result.messages)
       /\ returned' = [original_state EXCEPT !.success = "False",
                                             !.error = "validation error"]
       /\ error_index' = FirstInvalid(result.messages)
    /\ calls' = calls + 1
    /\ last_added' = o.added
    /\ wpc' = "done"
    /\ UNCHANGED <<original_state, state, retry_count, state_log>>
    /\ UNCHANGED exceptExec

\* agent_main.py:113-155  one pass of the loop whose result is a success:
\* save_state_log(result, node_name) and return the result
CallSuccess(o) ==
    /\ wpc = "loop"
    /\ retry_count < MAX_RETRY_COUNT
    /\ LET result == WithSuccess(NodeFunc(state, o)) IN
       /\ ValidateMessages(result.messages)
       /\ result.success = "True"
       /\ returned' = result
    /\ calls' = calls + 1
    /\ last_added' = o.added
    /\ state_log' = Append(state_log, "node")
    /\ wpc' = "done"
    /\ UNCHANGED <<original_state, state, retry_count, error_index>>
    /\ UNCHANGED exceptExec

\* agent_main.py:113-164  one pass of the loop whose result is a failure:
\* roll the state back and count the retry
CallFailure(o) ==
    /\ wpc = "loop"
    /\ retry_count < MAX_RETRY_COUNT
    /\ LET result == WithSuccess(NodeFunc(state, o)) IN
       /\ ValidateMessages(result.messages)
       /\ result.success = "False"
       /\ state' = RollbackState(original_state, result)
    /\ calls' = calls + 1
    /\ last_added' = o.added
    /\ retry_count' = retry_count + 1
    /\ UNCHANGED <<wpc, original_state, returned, error_index, state_log>>
    /\ UNCHANGED exceptExec

\* agent_main.py:166-184  the retries are used up: save the failed state as
\* "{node}_failed" and return it
RetriesExhausted ==
    /\ wpc = "loop"
    /\ retry_count >= MAX_RETRY_COUNT
    /\ returned' = [original_state EXCEPT !.success = "False",
                                          !.error = "retries exhausted"]
    /\ state_log' = Append(state_log, "node_failed")
    /\ wpc' = "done"
    /\ UNCHANGED <<original_state, state, retry_count, calls, last_added, error_index>>
    /\ UNCHANGED exceptExec

ExecNext ==
    \/ \E o \in NodeOutcomes(calls + 1) : CallInvalid(o)
    \/ \E o \in NodeOutcomes(calls + 1) : CallSuccess(o)
    \/ \E o \in NodeOutcomes(calls + 1) : CallFailure(o)
    \/ RetriesExhausted

\* the executor at rest, for the specifications of the timer manager
ExecIdle ==
    /\ ExecInit
    /\ original_state.messages = <<>>

(***************************************************************************)
(* Part 5: the node registry, src/src/nodes/registry.py.                   *)
(***************************************************************************)
\* the names the modules of src/src/nodes register: input_node.py:9-10,
\* planner_node.py:206-207, output_node.py:179-180,
\* unified_response_node.py:529-530, weather_search_node.py:8-9,
\* memory_search_node.py:11-12, end_node.py:9-10
NodeNames ==
    {"input", "planner", "output", "unified_response", "weather_search",
     "memory_search", "end"}
\* the functions a name is registered for
NodeFunctions == {"f1", "f2"}

\* registry.py:7  a name that is no key of _NODE_REGISTRY
NotRegistered == [registered |-> FALSE, function |-> ""]

\* registry.py:7  the registry when nodes.registry is imported
RegistryInit ==
    /\ NODE_REGISTRY = [n \in NodeNames |-> NotRegistered]
    /\ last_registered = [name |-> "", was |-> NotRegistered, raised |-> FALSE]

\* the registry after agent_main.py:56-60 imported the node modules
RegistryImported ==
    /\ NODE_REGISTRY = [n \in NodeNames |-> [registered |-> TRUE, function |-> "f1"]]
    /\ last_registered = [name |-> "", was |-> NotRegistered, raised |-> FALSE]

\* registry.py:9-27  register_node(name, ...)(func): the entry of the name is
\* assigned, whatever was there; nothing is raised
register_node(name, func) ==
    /\ NODE_REGISTRY' = [NODE_REGISTRY EXCEPT
                            ![name] = [registered |-> TRUE, function |-> func]]
    /\ last_registered' = [name |-> name, was |-> NODE_REGISTRY[name],
                           raised |-> FALSE]
    /\ UNCHANGED exceptRegistry

\* registry.py:33-44  get_all_nodes_info(): the registered names other than
\* input, planner and output
get_all_nodes_info(reg) ==
    {n \in NodeNames : reg[n].registered /\ n \notin {"input", "planner", "output"}}

RegistryNext ==
    \E name \in NodeNames : \E func \in NodeFunctions : register_node(name, func)

(***************************************************************************)
(* Part 3: a turn.  process_agent_request, agent_main.py:379-531, the      *)
(* graph of agent_main.py:329-377 and the nodes of src/src/nodes.          *)
(***************************************************************************)
\* turns run on the one checkpoint
MaxTurns == 2
\* wrapped nodes run, over the turns
MaxSuperSteps == 4

\* agent_main.py:430, 521  inactivity_timeout of the initial state and of a
\* final state without the key
DefaultTimeout == 60
\* unified_response_node.py:644  response.get("inactivity_timeout", 60)
UnifiedDefaultTimeout == 60
\* app.py:423  response.get('inactivity_timeout', 120)
GenerateDefaultTimeout == 120
\* a result of process_agent_request without the key inactivity_timeout
NoTimeout == 0
\* the values the LLM sets inactivity_timeout to
LLMTimeouts == {-1, 30}

\* weather_search_node.py:8, memory_search_node.py:11  the tool nodes
Tools == {"weather_search", "memory_search"}
\* agent_main.py:333-335  the nodes added with node_wrapper
WrappedNodes == {"unified_response"} \cup Tools
\* agent_main.py:408  get_all_nodes_info() of the registry the imports of
\* agent_main.py:56-60 filled: unified_response, weather_search,
\* memory_search, end
AvailableNodes ==
    get_all_nodes_info([n \in NodeNames |-> [registered |-> TRUE, function |-> "f1"]])
\* agent_main.py:343-367  the keys of the conditional edges of unified_response
\* that a next_node can have
RoutedNodes == {"weather_search", "memory_search", "end", "default"}

\* the messages of the transcript: type, ToolMessage.name,
\* additional_kwargs["action"], whether the content reports an error, and
\* whether the content holds the bytes of a file
\* the node_info the nodes give their messages,
\* unified_response_node.py:566-581, 656-664, 745-755, 773-782, 800-810,
\* 836-845, weather_search_node.py:41-58, 74-87, memory_search_node.py:93-105,
\* 127-140
NodeInfo == [present |-> TRUE, fields |-> RequiredFields]

\* a tool message without node_info
ToolMessageNoInfo(n, e) ==
    [type |-> "tool", name |-> n, action |-> "", err |-> e, blob |-> FALSE,
     info |-> [present |-> FALSE, fields |-> {}]]

HumanMessage ==
    [type |-> "human", name |-> "", action |-> "", err |-> FALSE, blob |-> FALSE,
     info |-> NodeInfo]
AIMessage(e) ==
    [type |-> "ai", name |-> "", action |-> "", err |-> e, blob |-> FALSE,
     info |-> NodeInfo]
SystemMessage(a) ==
    [type |-> "system", name |-> "", action |-> a, err |-> FALSE, blob |-> FALSE,
     info |-> NodeInfo]
ToolMessage(n, e) ==
    [type |-> "tool", name |-> n, action |-> "", err |-> e, blob |-> FALSE,
     info |-> NodeInfo]

\* app.py:352-384  the files of a request: filename, type, size,
\* content_type and content, the bytes of the file
FileData == [filename |-> "a.png", content |-> "bytes"]
\* the files_data of a turn: no file, or one image
FilesData == {<<>>, <<FileData>>}

\* a file entry that is the file data itself, content and all
ProcessedFileWithContent(file_data) == file_data

\* unified_response_node.py:683-702  the entry of state["files"] for a file:
\* filename, type, content_type, size, timestamp, description
ProcessedFile(file_data) == [filename |-> file_data.filename, content |-> Absent]

ProcessedFiles(fd) == [i \in 1..Len(fd) |-> ProcessedFile(fd[i])]

\* llm_utils.py:189-234  the messages call_llm sends: the content of the last
\* message, when it is a human message, gets the base64 of the image files
LLMMessages(msgs, fd) ==
    [i \in 1..Len(msgs) |->
        IF i = Len(msgs) /\ msgs[i].type = "human" /\ fd # <<>>
        THEN [msgs[i] EXCEPT !.blob = TRUE]
        ELSE msgs[i]]

\* the bytes of a file are in the state: in an entry of files or in the
\* content of a message
HasBytes(st) ==
    \/ \E i \in 1..Len(st.files) : st.files[i].content # Absent
    \/ \E i \in 1..Len(st.messages) : st.messages[i].blob

\* agent_main.py:235-295  save_state_log(state, node_name): the state is
\* pickled, and written as JSON with str() of its lists
save_state_log(st, node_name) == [name |-> node_name, bytes |-> HasBytes(st)]

\* what call_llm hands to the decision node: "ok" a dict that passed the
\* schema, "error" the dict {"error": ...} call_llm returns when the reply is
\* not JSON, violates the schema or the request failed (llm_utils.py:411-463),
\* "nondict" a JSON value that is no object (llm_utils.py:84, 90).  The node
\* reads tool_name only when requires_tool is set and response only when it
\* is not (unified_response_node.py:730-826)
LLMOutputs ==
    [kind : {"ok"}, requires_tool : {TRUE},
     tool_name : Tools \cup {"unified_response", "other"},
     response : {""}, inactivity_timeout : LLMTimeouts]
    \cup [kind : {"ok"}, requires_tool : {FALSE}, tool_name : {"other"},
          response : {"", "reply"}, inactivity_timeout : LLMTimeouts]
    \cup [kind : {"error", "nondict"}, requires_tool : {FALSE},
          tool_name : {"other"}, response : {""},
          inactivity_timeout : {UnifiedDefaultTimeout}]

\* unified_response_node.py:585-611  no HumanMessage is added behind a tool
\* message
SkipHumanMessage(msgs) == msgs # <<>> /\ msgs[Len(msgs)].type = "tool"

\* a decision node that adds the HumanMessage on every entry
StateWithInputAlways(st) == Append(st.messages, HumanMessage)

\* unified_response_node.py:600-611, 711-728  state_with_input and
\* updated_state: the messages with the HumanMessage of the input, unless
\* it is skipped
StateWithInput(st) ==
    IF SkipHumanMessage(st.messages) THEN st.messages
    ELSE Append(st.messages, HumanMessage)

\* unified_response_node.py:86-116
get_last_tool_name(msgs) ==
    IF msgs = <<>> THEN ""
    ELSE LET latest_message == msgs[Len(msgs)] IN
         IF latest_message.type = "tool" THEN latest_message.name
         ELSE IF latest_message.type = "system" THEN latest_message.action
         ELSE ""

\* a prompt that lists every node but the decision node
ListedToolsAll(st) ==
    IF st.is_inactivity_reminder THEN {}
    ELSE st.available_nodes \ {"unified_response"}

\* unified_response_node.py:268-282, 332-422  the tools the prompt lists: the
\* prompt of a reminder turn has no tool section
ListedTools(st) ==
    IF st.is_inactivity_reminder THEN {}
    ELSE st.available_nodes
             \ {"unified_response", get_last_tool_name(StateWithInput(st))}

\* a direct reply that leaves next_node as it was
DirectReplyKeepsRoute(st, msgs, response_text, timeout) ==
    [st EXCEPT !.messages = Append(msgs, AIMessage(response_text = "")),
               !.response = response_text,
               !.success = (response_text # ""),
               !.inactivity_timeout = timeout]

\* unified_response_node.py:788-826  no tool: the reply, next_node "end", and
\* a failure when the reply is empty
DirectReply(st, msgs, response_text, timeout) ==
    [st EXCEPT !.messages = Append(msgs, AIMessage(response_text = "")),
               !.response = response_text,
               !.next_node = "end",
               !.success = (response_text # ""),
               !.inactivity_timeout = timeout]

\* unified_response_node.py:730-787  a tool was asked for: route to it when
\* it is one of available_nodes, apologise otherwise
ToolRequest(st, msgs, tool_name, timeout) ==
    IF tool_name \in st.available_nodes
    THEN [st EXCEPT !.messages = Append(msgs, SystemMessage(tool_name)),
                    !.next_node = tool_name,
                    !.success = TRUE,
                    !.inactivity_timeout = timeout]
    ELSE [st EXCEPT !.messages = Append(msgs, AIMessage(FALSE)),
                    !.response = "unavailable",
                    !.next_node = "end",
                    !.success = TRUE,
                    !.inactivity_timeout = timeout]

\* unified_response_node.py:536-858  process_unified_response
process_unified_response(st, llm, fd) ==
    IF llm.kind = "nondict"
    THEN \* 646-680  response.get raised: the apology of the inner except
         [st EXCEPT !.messages = Append(st.messages, AIMessage(TRUE)),
                    !.files = <<>>,
                    !.success = FALSE,
                    !.response = "apology",
                    !.next_node = "end"]
    ELSE LET updated_state == [st EXCEPT !.files = ProcessedFiles(fd)] IN
         IF llm.kind = "ok" /\ llm.requires_tool
         THEN ToolRequest(updated_state, StateWithInput(st), llm.tool_name,
                          llm.inactivity_timeout)
         ELSE DirectReply(updated_state, StateWithInput(st), llm.response,
                          llm.inactivity_timeout)

\* a weather node whose state has its own message only
WeatherSearchOwnMessage(st, ok) ==
    [st EXCEPT !.messages = <<ToolMessage("weather_search", ~ok)>>,
               !.success = ok,
               !.response = IF ok THEN "tool result" ELSE "tool error",
               !.next_node = "end"]

\* weather_search_node.py:15-101
process_weather_search(st, ok) ==
    [st EXCEPT !.messages = Append(st.messages, ToolMessage("weather_search", ~ok)),
               !.success = ok,
               !.response = IF ok THEN "tool result" ELSE "tool error",
               !.next_node = "end"]

\* memory_search_node.py:17-151
process_memory_search(st, ok) ==
    [st EXCEPT !.messages = Append(st.messages, ToolMessage("memory_search", ~ok)),
               !.success = ok,
               !.response = IF ok THEN "tool result" ELSE "tool error",
               !.next_node = "unified_response"]

ProcessTool(node, st, ok) ==
    IF node = "weather_search" THEN process_weather_search(st, ok)
    ELSE process_memory_search(st, ok)

\* an end node that also clears the response
ProcessEndClearing(st) == [st EXCEPT !.success = TRUE, !.response = ""]

\* end_node.py:16-32
process_end(st) == [st EXCEPT !.success = TRUE]

\* agent_main.py:363-367  the conditional edge: lambda state:
\* state.get("next_node") looked up in the edge map; a value that is no key
\* of the map makes graph.invoke raise
RouteOf(next_node) ==
    IF next_node \in RoutedNodes
    THEN (IF next_node = "default" THEN "end" ELSE next_node)
    ELSE "KeyError"

\* agent_main.py:363-367  the conditional edge is evaluated in the step of
\* the node: when it raises, the values the node returned are written to the
\* checkpoint or are not, as the graph library has it
Committed(next_node) ==
    IF RouteOf(next_node) = "KeyError" THEN BOOLEAN ELSE {TRUE}

\* agent_main.py:527-531, 395-398  the dict returned without a final state
FailureResult(text) ==
    [response |-> text, success |-> FALSE, inactivity_timeout |-> NoTimeout]

NoPrompt == [last_tool |-> "", tools |-> {}, bytes |-> FALSE]
NoRoute == [from |-> "", next_node |-> "", to |-> ""]
NoDecision ==
    [called |-> FALSE, requires_tool |-> FALSE, next_node |-> "", success |-> FALSE,
     empty |-> FALSE]

\* what is known about the turn, cleared when a turn begins
ResetTurnHistory ==
    /\ trace' = <<>>
    /\ exhausted' = {}
    /\ snapshots' = {}
    /\ bad_llm' = FALSE
    /\ called_after_bad' = FALSE
    /\ prompt' = NoPrompt
    /\ tool_ret' = ""
    /\ dec_ret' = NoDecision
    /\ tool_failed' = FALSE
    /\ logged' = {}
    /\ returned_invalid' = FALSE
    /\ routed' = NoRoute

\* the checkpoint of a process that ran no turn
FreshChannels ==
    [messages |-> <<>>, files |-> <<>>, success |-> FALSE, response |-> "",
     next_node |-> Absent, inactivity_timeout |-> DefaultTimeout,
     is_inactivity_reminder |-> FALSE, available_nodes |-> {}]

\* a process before its first turn
TurnInit ==
    /\ initialization_success \in BOOLEAN
    /\ tpc = "idle"
    /\ turns = 0
    /\ reminder = FALSE
    /\ channels = FreshChannels
    /\ last_valid = DefaultTimeout
    /\ armed_timeout = 0
    /\ gnode = "unified_response"
    /\ n_retry = 0
    /\ turn_result = FailureResult("")
    /\ fatal = FALSE
    /\ trace = <<>>
    /\ exhausted = {}
    /\ snapshots = {}
    /\ bad_llm = FALSE
    /\ called_after_bad = FALSE
    /\ prompt = NoPrompt
    /\ tool_ret = ""
    /\ dec_ret = NoDecision
    /\ tool_failed = FALSE
    /\ files_data = <<>>
    /\ logged = {}
    /\ client_of = <<>>
    /\ appended_in = <<>>
    /\ armed_session = None
    /\ returned_invalid = FALSE
    /\ routed = NoRoute
    /\ node_runs = 0

\* no turn is run, for the specifications of the other parts
TurnIdle ==
    /\ TurnInit
    /\ initialization_success

\* app.py:141-163  the reminder turn is the callback of the timer /generate
\* armed: there is one when a timer is armed, for the session it is armed for
TimerFiredFor(sid) == armed_timeout > 0 /\ sid = armed_session

\* agent_main.py:393-398  the import of the module had failed
TurnInitFailed(rem, sid) ==
    /\ tpc = "idle"
    /\ turns < MaxTurns
    /\ ~initialization_success
    /\ rem => TimerFiredFor(sid)
    /\ turns' = turns + 1
    /\ client_of' = Append(client_of, sid)
    /\ reminder' = rem
    /\ turn_result' = FailureResult("init failed")
    /\ fatal' = TRUE
    /\ tpc' = "returned"
    /\ ResetTurnHistory
    /\ UNCHANGED <<initialization_success, channels, gnode, n_retry, armed_timeout,
                   last_valid, files_data, appended_in, armed_session, node_runs>>
    /\ UNCHANGED exceptTurn

\* agent_main.py:421-443  graph.invoke(initial_state, thread SESSION_ID): the
\* keys of initial_state overwrite the checkpoint, messages (add_messages
\* with []), files and next_node (no keys of initial_state) stay; the files
\* go to CURRENT_FILES_DATA, and the reminder turn of app.py:145-150 has none
TurnBegin(rem, fd, sid) ==
    /\ tpc = "idle"
    /\ turns < MaxTurns
    /\ initialization_success
    /\ rem => fd = <<>> /\ TimerFiredFor(sid)
    /\ files_data' = fd
    /\ turns' = turns + 1
    /\ client_of' = Append(client_of, sid)
    /\ reminder' = rem
    /\ channels' = [channels EXCEPT !.response = "", !.success = FALSE,
                                    !.available_nodes = AvailableNodes,
                                    !.is_inactivity_reminder = rem,
                                    !.inactivity_timeout = DefaultTimeout]
    /\ gnode' = "unified_response"
    /\ n_retry' = 0
    /\ fatal' = FALSE
    /\ tpc' = "run"
    /\ ResetTurnHistory
    /\ UNCHANGED <<initialization_success, turn_result, armed_timeout, last_valid,
                   appended_in, armed_session, node_runs>>
    /\ UNCHANGED exceptTurn

\* one call of a wrapped node begins: the wrapper is entered when it is the
\* first call
NodeCalled ==
    /\ tpc = "run"
    /\ n_retry < MAX_RETRY_COUNT
    /\ n_retry > 0 \/ node_runs < MaxSuperSteps
    /\ trace' = IF n_retry = 0 THEN Append(trace, gnode) ELSE trace
    /\ node_runs' = IF n_retry = 0 THEN node_runs + 1 ELSE node_runs

\* the messages res has more than the transcript were appended in this turn
AppendedIn(res) ==
    appended_in \o [i \in 1..(Len(res.messages) - Len(channels.messages)) |-> turns]

\* what a call of the decision node shows
UnifiedObserved(llm, res) ==
    /\ prompt' = [last_tool |-> IF SkipHumanMessage(channels.messages)
                                THEN channels.messages[Len(channels.messages)].name
                                ELSE "",
                  tools |-> ListedTools(channels),
                  bytes |-> \E m \in Range(LLMMessages(StateWithInput(channels),
                                                        files_data)) : m.blob]
    /\ dec_ret' = [called |-> TRUE,
                   requires_tool |-> (llm.kind = "ok" /\ llm.requires_tool),
                   next_node |-> res.next_node,
                   success |-> res.success,
                   empty |-> (llm.kind = "ok" /\ ~llm.requires_tool
                              /\ llm.response = "")]
    /\ called_after_bad' = (called_after_bad \/ bad_llm)
    /\ bad_llm' = (bad_llm \/ llm.kind # "ok")
    /\ returned_invalid' = (returned_invalid \/ ~ValidateMessages(res.messages))

\* agent_main.py:113-155 around unified_response_wrapper: the call succeeds,
\* the result is the new state and the conditional edge is followed
UnifiedSucceeds(llm) ==
    /\ gnode = "unified_response"
    /\ NodeCalled
    /\ LET res == process_unified_response(channels, llm, files_data) IN
       /\ res.success
       /\ \E written \in Committed(res.next_node) :
             /\ channels' = IF written THEN res ELSE channels
             /\ appended_in' = IF written THEN AppendedIn(res) ELSE appended_in
       /\ gnode' = RouteOf(res.next_node)
       /\ routed' = [from |-> gnode, next_node |-> res.next_node,
                     to |-> RouteOf(res.next_node)]
       /\ UnifiedObserved(llm, res)
       /\ logged' = logged \cup {save_state_log(res, "unified_response")}
    /\ n_retry' = 0
    /\ tool_failed' = FALSE
    /\ UNCHANGED <<initialization_success, tpc, turns, reminder, turn_result,
                   armed_timeout, last_valid, fatal, exhausted, snapshots, tool_ret,
                   files_data, client_of, armed_session>>
    /\ UNCHANGED exceptTurn

\* agent_main.py:157-164 around unified_response_wrapper: the call fails, the
\* result is dropped and the node is called again
UnifiedFails(llm) ==
    /\ gnode = "unified_response"
    /\ NodeCalled
    /\ LET res == process_unified_response(channels, llm, files_data) IN
       /\ ~res.success
       /\ UnifiedObserved(llm, res)
    /\ n_retry' = n_retry + 1
    /\ UNCHANGED <<initialization_success, tpc, turns, reminder, channels, gnode,
                   turn_result, armed_timeout, last_valid, fatal, exhausted, snapshots,
                   tool_ret, tool_failed, files_data, logged, client_of,
                   appended_in, armed_session, routed>>
    /\ UNCHANGED exceptTurn

\* agent_main.py:113-155 around a tool node: the call succeeds; the edge of
\* agent_main.py:339-340 leads back to unified_response
ToolSucceeds ==
    /\ gnode \in Tools
    /\ NodeCalled
    /\ LET res == ProcessTool(gnode, channels, TRUE) IN
       /\ channels' = res
       /\ tool_ret' = res.next_node
       /\ logged' = logged \cup {save_state_log(res, gnode)}
       /\ appended_in' = AppendedIn(res)
       /\ returned_invalid' = (returned_invalid \/ ~ValidateMessages(res.messages))
       /\ routed' = [from |-> gnode, next_node |-> res.next_node,
                     to |-> "unified_response"]
    /\ gnode' = "unified_response"
    /\ n_retry' = 0
    /\ tool_failed' = FALSE
    /\ UNCHANGED <<initialization_success, tpc, turns, reminder, turn_result,
                   armed_timeout, last_valid, fatal, exhausted, snapshots,
                   bad_llm, called_after_bad, prompt, dec_ret, files_data,
                   client_of, armed_session>>
    /\ UNCHANGED exceptTurn

\* agent_main.py:157-164 around a tool node: the external call fails, the
\* state with the error message is dropped and the node is called again
ToolFails ==
    /\ gnode \in Tools
    /\ NodeCalled
    /\ LET res == ProcessTool(gnode, channels, FALSE) IN
       /\ tool_ret' = res.next_node
       /\ returned_invalid' = (returned_invalid \/ ~ValidateMessages(res.messages))
    /\ n_retry' = n_retry + 1
    /\ UNCHANGED <<initialization_success, tpc, turns, reminder, channels, gnode,
                   turn_result, armed_timeout, last_valid, fatal, exhausted, snapshots,
                   bad_llm, called_after_bad, prompt, dec_ret, tool_failed,
                   files_data, logged, client_of, appended_in, armed_session,
                   routed>>
    /\ UNCHANGED exceptTurn

\* agent_main.py:166-184  the retries are used up: the state the wrapper was
\* entered with, success False, is saved as "{node}_failed" and returned;
\* the graph follows the edge out of the node
NodeExhausted ==
    /\ tpc = "run"
    /\ gnode \in WrappedNodes
    /\ n_retry >= MAX_RETRY_COUNT
    /\ \E written \in (IF gnode = "unified_response"
                        THEN Committed(channels.next_node) ELSE {TRUE}) :
          channels' = IF written THEN [channels EXCEPT !.success = FALSE]
                      ELSE channels
    /\ snapshots' = snapshots \cup {<<gnode, "failed">>}
    /\ logged' = logged \cup
           {save_state_log([channels EXCEPT !.success = FALSE],
                            gnode \o "_failed")}
    /\ exhausted' = exhausted \cup {[node |-> gnode, calls |-> n_retry]}
    /\ gnode' = IF gnode = "unified_response" THEN RouteOf(channels.next_node)
                ELSE "unified_response"
    /\ routed' = [from |-> gnode, next_node |-> channels.next_node,
                  to |-> gnode']
    /\ tool_failed' = (gnode \in Tools)
    /\ n_retry' = 0
    /\ UNCHANGED <<initialization_success, tpc, turns, reminder, turn_result,
                   armed_timeout, last_valid, fatal, trace, bad_llm,
                   called_after_bad, prompt, tool_ret, dec_ret, files_data,
                   client_of, appended_in, armed_session, returned_invalid, node_runs>>
    /\ UNCHANGED exceptTurn

\* end_node.py:16-32 and agent_main.py:517-524  the end node sets success and
\* process_agent_request returns the fields of the final state
EndNode ==
    /\ tpc = "run"
    /\ gnode = "end"
    /\ channels' = process_end(channels)
    /\ turn_result' = [response |-> channels.response,
                  success |-> process_end(channels).success,
                  inactivity_timeout |-> channels.inactivity_timeout]
    /\ last_valid' = channels.inactivity_timeout
    /\ fatal' = FALSE
    /\ tpc' = "returned"
    /\ files_data' = <<>>
    /\ logged' = logged \cup {save_state_log(process_end(channels), "final_state")}
    /\ UNCHANGED <<initialization_success, turns, reminder, gnode, n_retry,
                   armed_timeout, trace, exhausted,
                   snapshots, bad_llm, called_after_bad, prompt, tool_ret,
                   dec_ret, tool_failed, client_of, appended_in, armed_session,
                   returned_invalid, routed, node_runs>>
    /\ UNCHANGED exceptTurn

\* agent_main.py:525-531  graph.invoke raised: the next_node of the state is
\* no key of the conditional edges
RouteRaises ==
    /\ tpc = "run"
    /\ gnode = "KeyError"
    /\ turn_result' = FailureResult("error text")
    /\ fatal' = TRUE
    /\ tpc' = "returned"
    /\ UNCHANGED <<initialization_success, turns, reminder, channels, gnode,
                   n_retry, armed_timeout, last_valid, trace,
                   exhausted, snapshots, bad_llm, called_after_bad, prompt,
                   tool_ret, dec_ret, tool_failed, files_data, logged,
                   client_of, appended_in, armed_session, returned_invalid,
                   routed, node_runs>>
    /\ UNCHANGED exceptTurn

\* app.py:422-426  /generate arms the timer with the inactivity_timeout of
\* the result, 120 when the result has none, when it is positive
ArmAfterTurn ==
    /\ tpc = "returned"
    /\ ~reminder
    /\ LET inactivity_timeout ==
               IF turn_result.inactivity_timeout = NoTimeout
               THEN GenerateDefaultTimeout
               ELSE turn_result.inactivity_timeout IN
       /\ armed_timeout' = IF inactivity_timeout > 0 THEN inactivity_timeout ELSE 0
       /\ armed_session' = IF inactivity_timeout > 0 THEN client_of[turns]
                           ELSE None
    /\ tpc' = "idle"
    /\ UNCHANGED <<initialization_success, turns, reminder, channels, gnode,
                   n_retry, turn_result, last_valid, fatal, trace,
                   exhausted, snapshots, bad_llm, called_after_bad, prompt,
                   tool_ret, dec_ret, tool_failed, files_data, logged,
                   client_of, appended_in, returned_invalid, routed, node_runs>>
    /\ UNCHANGED exceptTurn

\* app.py:145-163  the turn was the reminder turn of timer_callback, which
\* arms no timer
ReminderReturns ==
    /\ tpc = "returned"
    /\ reminder
    /\ armed_timeout' = 0
    /\ armed_session' = None
    /\ tpc' = "idle"
    /\ UNCHANGED <<initialization_success, turns, reminder, channels, gnode,
                   n_retry, turn_result, last_valid, fatal, trace,
                   exhausted, snapshots, bad_llm, called_after_bad, prompt,
                   tool_ret, dec_ret, tool_failed, files_data, logged,
                   client_of, appended_in, returned_invalid, routed, node_runs>>
    /\ UNCHANGED exceptTurn

\* a graph whose invoke is never ended by the recursion limit
NoRecursionLimit ==
    /\ FALSE
    /\ UNCHANGED <<gvars, exceptTurn>>

\* agent_main.py:448-451, 525-531  graph.invoke is called with a config that
\* names no recursion_limit: the graph library raises when the limit of
\* super-steps is used up and a node is still to run, and
\* process_agent_request returns the dict of a failure.  The limit is
\* MaxSuperSteps here
GraphRecursionError ==
    /\ tpc = "run"
    /\ gnode \in WrappedNodes
    /\ n_retry = 0
    /\ Len(trace) >= MaxSuperSteps
    /\ turn_result' = FailureResult("error text")
    /\ fatal' = TRUE
    /\ tpc' = "returned"
    /\ UNCHANGED <<initialization_success, turns, reminder, channels, gnode,
                   n_retry, armed_timeout, last_valid, trace,
                   exhausted, snapshots, bad_llm, called_after_bad, prompt,
                   tool_ret, dec_ret, tool_failed, files_data, logged,
                   client_of, appended_in, armed_session, returned_invalid,
                   routed, node_runs>>
    /\ UNCHANGED exceptTurn

\* the checkpoint earlier turns left: of a first turn whose invoke raised, of
\* a turn answered directly, and of a turn whose decision node used up its
\* retries behind the message of a tool
Checkpoints ==
    {[FreshChannels EXCEPT !.available_nodes = AvailableNodes],
     [FreshChannels EXCEPT !.available_nodes = AvailableNodes,
                           !.messages = <<HumanMessage, AIMessage(FALSE)>>,
                           !.response = "reply",
                           !.success = TRUE,
                           !.next_node = "end",
                           !.inactivity_timeout = 30],
     [FreshChannels EXCEPT !.available_nodes = AvailableNodes,
                           !.messages = <<HumanMessage,
                                          SystemMessage("weather_search"),
                                          ToolMessage("weather_search", FALSE)>>,
                           !.response = "tool result",
                           !.success = TRUE,
                           !.next_node = "end",
                           !.inactivity_timeout = 30]}

\* a process whose last turn is about to begin, on any of the checkpoints,
\* with the timer of the turn before armed or not
TurnInitLast ==
    /\ initialization_success \in BOOLEAN
    /\ tpc = "idle"
    /\ turns = MaxTurns - 1
    /\ reminder = FALSE
    /\ channels \in Checkpoints
    /\ last_valid = channels.inactivity_timeout
    /\ armed_timeout \in {0, channels.inactivity_timeout}
    /\ gnode = "unified_response"
    /\ n_retry = 0
    /\ turn_result = FailureResult("")
    /\ fatal = FALSE
    /\ trace = <<>>
    /\ exhausted = {}
    /\ snapshots = {}
    /\ bad_llm = FALSE
    /\ called_after_bad = FALSE
    /\ prompt = NoPrompt
    /\ tool_ret = ""
    /\ dec_ret = NoDecision
    /\ tool_failed = FALSE
    /\ files_data = <<>>
    /\ logged = {}
    /\ client_of = [i \in 1..turns |-> "A"]
    /\ appended_in = [i \in 1..Len(channels.messages) |-> turns]
    /\ armed_session = IF armed_timeout > 0 THEN "A" ELSE None
    /\ returned_invalid = FALSE
    /\ routed = NoRoute
    /\ node_runs = 0

TurnNext ==
    \/ \E rem \in BOOLEAN : \E sid \in Sessions : TurnInitFailed(rem, sid)
    \/ \E rem \in BOOLEAN : \E fd \in FilesData : \E sid \in Sessions :
          TurnBegin(rem, fd, sid)
    \/ \E llm \in LLMOutputs : UnifiedSucceeds(llm)
    \/ \E llm \in LLMOutputs : UnifiedFails(llm)
    \/ ToolSucceeds
    \/ ToolFails
    \/ NodeExhausted
    \/ EndNode
    \/ RouteRaises
    \/ ArmAfterTurn
    \/ ReminderReturns

(***************************************************************************)
(* Part 4: the voice files of one reply.                                   *)
(* VoiceStreamGenerator._generate_voice_files,                             *)
(* voice_player_manager.py:316-447, called by /generate and by the         *)
(* reminder with play_audio=False and callback = voice_file_callback,      *)
(* app.py:203-222.                                                         *)
(***************************************************************************)
\* sentences a reply is split into, at most
MaxFragments == 4

Fragments == 0..(MaxFragments - 1)

\* voice_player_manager.py:316-447 is not running
VoiceInit ==
    /\ v_pc = "idle"
    /\ v_texts = 0
    /\ v_ok = [i \in Fragments |-> TRUE]
    /\ v_finished = 0
    /\ v_initial = {}
    /\ v_yielded = {}
    /\ completed_count = 0
    /\ emitted = <<>>

\* voice_player_manager.py:514-529, 337-341  generate_with_callback: the text
\* is split into n sentences; ok tells for which of them generate_voice_part
\* will succeed
GenerateWithCallback(n, ok) ==
    /\ v_pc = "idle"
    /\ \A i \in Fragments : i >= n => ok[i]
    /\ v_texts' = n
    /\ v_ok' = ok
    /\ v_pc' = "first"
    /\ UNCHANGED <<v_finished, v_initial, v_yielded, completed_count, emitted>>
    /\ UNCHANGED exceptVoice

\* app.py:203-222  voice_file_callback: socketio.emit('voice_file_ready')
Emit(index, is_last) == Append(emitted, [index |-> index, is_last |-> is_last])

\* voice_player_manager.py:347-378  the first sentence is generated in the
\* calling thread and reported with index 0
FirstFragment ==
    /\ v_pc = "first"
    /\ emitted' = IF v_ok[0] THEN Emit(0, v_texts = 1) ELSE emitted
    /\ v_pc' = IF v_texts > 1 THEN "submit" ELSE "done"
    /\ UNCHANGED <<v_texts, v_ok, v_finished, v_initial, v_yielded, completed_count>>
    /\ UNCHANGED exceptVoice

\* voice_player_manager.py:381-400  the other sentences are submitted, in
\* the order of their index, to an executor with one worker thread
SubmitRemaining ==
    /\ v_pc = "submit"
    /\ v_pc' = "submitted"
    /\ UNCHANGED <<v_texts, v_ok, v_finished, v_initial, v_yielded,
                   completed_count, emitted>>
    /\ UNCHANGED exceptVoice

\* voice_player_manager.py:385  the worker thread finishes the next future:
\* one worker runs the futures
\* in the order they were submitted
WorkerFinishes ==
    /\ v_pc \in {"submitted", "collect"}
    /\ v_finished < v_texts - 1
    /\ v_finished' = v_finished + 1
    /\ UNCHANGED <<v_pc, v_texts, v_ok, v_initial, v_yielded, completed_count, emitted>>
    /\ UNCHANGED exceptVoice

\* voice_player_manager.py:404  as_completed(future_to_text) is called: the
\* futures that are finished by now form a set
AsCompleted ==
    /\ v_pc = "submitted"
    /\ v_initial' = 1..v_finished
    /\ v_pc' = "collect"
    /\ UNCHANGED <<v_texts, v_ok, v_finished, v_yielded, completed_count, emitted>>
    /\ UNCHANGED exceptVoice

\* voice_player_manager.py:405-428  the body of the loop for the future of
\* sentence i: is_last is set on the last future the loop sees, the callback
\* is called when the generation succeeded
LoopBody(i) ==
    /\ completed_count' = completed_count + 1
    /\ v_yielded' = v_yielded \cup {i}
    /\ emitted' = IF v_ok[i] THEN Emit(i, completed_count + 1 = v_texts - 1)
                  ELSE emitted
    /\ v_pc' = IF completed_count + 1 = v_texts - 1 THEN "done" ELSE "collect"

\* voice_player_manager.py:404  as_completed yields a future that was
\* finished when it was called: these
\* are yielded in the iteration order of a set of Future objects
YieldFinished(i) ==
    /\ v_pc = "collect"
    /\ i \in v_initial \ v_yielded
    /\ LoopBody(i)
    /\ UNCHANGED <<v_texts, v_ok, v_finished, v_initial>>
    /\ UNCHANGED exceptVoice

\* voice_player_manager.py:404  as_completed yields the futures that finish
\* later in the order they
\* finish
YieldNext ==
    /\ v_pc = "collect"
    /\ v_initial \subseteq v_yielded
    /\ \E i \in 1..v_finished :
          /\ i \notin v_yielded
          /\ \A j \in 1..(i - 1) : j \in v_yielded
          /\ LoopBody(i)
    /\ UNCHANGED <<v_texts, v_ok, v_finished, v_initial>>
    /\ UNCHANGED exceptVoice

VoiceNext ==
    \/ \E n \in 1..MaxFragments : \E ok \in [Fragments -> BOOLEAN] :
          GenerateWithCallback(n, ok)
    \/ FirstFragment
    \/ SubmitRemaining
    \/ WorkerFinishes
    \/ AsCompleted
    \/ \E i \in Fragments : YieldFinished(i)
    \/ YieldNext

(***************************************************************************)
(* Part 6: the input of a turn on its way to the decision node.            *)
(* process_agent_request, agent_main.py:433-460, stores input_text and     *)
(* files_data in two globals of the module and unified_response_wrapper,   *)
(* agent_main.py:193-222, reads them.  The callers are the request threads *)
(* of /generate and the thread of the inactivity timer, app.py:141-163.    *)
(***************************************************************************)
\* threads that call process_agent_request, once each
Callers == {"c1", "c2"}
\* entries of the decision node in one turn, at most
MaxEntries == 2

\* app.py:330-384  the input of a user turn
UserInputs == [input_text : {"text1", "text2"}, files_data : FilesData]
\* app.py:145-150  the input of the reminder turn
ReminderInput == [input_text |-> "", files_data |-> <<>>]

IdleCaller ==
    [pc |-> "idle", input_text |-> "", files_data |-> <<>>,
     read_text |-> "", read_files |-> <<>>, entries |-> 0]

\* agent_main.py:189-190
GlobalsInit ==
    /\ CURRENT_INPUT_TEXT = ""
    /\ CURRENT_FILES_DATA = <<>>
    /\ req = [c \in Callers |-> IdleCaller]

\* agent_main.py:379  process_agent_request(input_text, files_data, ...)
ProcessAgentRequest(c, input) ==
    /\ req[c].pc = "idle"
    /\ req' = [req EXCEPT ![c] = [IdleCaller EXCEPT
                                     !.pc = "set_text",
                                     !.input_text = input.input_text,
                                     !.files_data = input.files_data]]
    /\ UNCHANGED <<CURRENT_INPUT_TEXT, CURRENT_FILES_DATA>>
    /\ UNCHANGED exceptGlobals

\* agent_main.py:435  CURRENT_INPUT_TEXT = input_text
SetText(c) ==
    /\ req[c].pc = "set_text"
    /\ CURRENT_INPUT_TEXT' = req[c].input_text
    /\ req' = [req EXCEPT ![c].pc = "set_files"]
    /\ UNCHANGED CURRENT_FILES_DATA
    /\ UNCHANGED exceptGlobals

\* agent_main.py:436  CURRENT_FILES_DATA = files_data
SetFiles(c) ==
    /\ req[c].pc = "set_files"
    /\ CURRENT_FILES_DATA' = req[c].files_data
    /\ req' = [req EXCEPT ![c].pc = "invoke"]
    /\ UNCHANGED CURRENT_INPUT_TEXT
    /\ UNCHANGED exceptGlobals

\* agent_main.py:206  input_text = CURRENT_INPUT_TEXT, in the first entry of
\* the decision node and in every entry after a tool or a failed call
WrapperReadText(c) ==
    /\ req[c].pc = "invoke"
    /\ req[c].entries < MaxEntries
    /\ req' = [req EXCEPT ![c].pc = "read_files",
                          ![c].read_text = CURRENT_INPUT_TEXT]
    /\ UNCHANGED <<CURRENT_INPUT_TEXT, CURRENT_FILES_DATA>>
    /\ UNCHANGED exceptGlobals

\* agent_main.py:207  files_data = CURRENT_FILES_DATA
WrapperReadFiles(c) ==
    /\ req[c].pc = "read_files"
    /\ req' = [req EXCEPT ![c].pc = "process",
                          ![c].read_files = CURRENT_FILES_DATA]
    /\ UNCHANGED <<CURRENT_INPUT_TEXT, CURRENT_FILES_DATA>>
    /\ UNCHANGED exceptGlobals

\* agent_main.py:210  process_unified_response(state, input_text, files_data)
\* runs and returns
WrapperProcess(c) ==
    /\ req[c].pc = "process"
    /\ req' = [req EXCEPT ![c].pc = "invoke",
                          ![c].entries = req[c].entries + 1]
    /\ UNCHANGED <<CURRENT_INPUT_TEXT, CURRENT_FILES_DATA>>
    /\ UNCHANGED exceptGlobals

\* agent_main.py:448-451  graph.invoke returns, after one entry of the
\* decision node at least
InvokeReturns(c) ==
    /\ req[c].pc = "invoke"
    /\ req[c].entries > 0
    /\ req' = [req EXCEPT ![c].pc = "clear_text"]
    /\ UNCHANGED <<CURRENT_INPUT_TEXT, CURRENT_FILES_DATA>>
    /\ UNCHANGED exceptGlobals

\* agent_main.py:458  CURRENT_INPUT_TEXT = ""
ClearText(c) ==
    /\ req[c].pc = "clear_text"
    /\ CURRENT_INPUT_TEXT' = ""
    /\ req' = [req EXCEPT ![c].pc = "clear_files"]
    /\ UNCHANGED CURRENT_FILES_DATA
    /\ UNCHANGED exceptGlobals

\* agent_main.py:459  CURRENT_FILES_DATA = [], and the turn returns
ClearFiles(c) ==
    /\ req[c].pc = "clear_files"
    /\ CURRENT_FILES_DATA' = <<>>
    /\ req' = [req EXCEPT ![c].pc = "returned"]
    /\ UNCHANGED CURRENT_INPUT_TEXT
    /\ UNCHANGED exceptGlobals

GlobalsNext ==
    \/ \E c \in Callers : \E input \in UserInputs \cup {ReminderInput} :
          ProcessAgentRequest(c, input)
    \/ \E c \in Callers : SetText(c)
    \/ \E c \in Callers : SetFiles(c)
    \/ \E c \in Callers : WrapperReadText(c)
    \/ \E c \in Callers : WrapperReadFiles(c)
    \/ \E c \in Callers : WrapperProcess(c)
    \/ \E c \in Callers : InvokeReturns(c)
    \/ \E c \in Callers : ClearText(c)
    \/ \E c \in Callers : ClearFiles(c)

(***************************************************************************)
(* Part 7: OrderedVoiceQueue, voice_player_manager.py:32-77, with threads  *)
(* that call add_file and reset.                                           *)
(***************************************************************************)
\* threads that call add_file and reset
QueueThreads == {"t1", "t2"}
\* indexes a file is added with: 0..MaxIndex-1
MaxIndex == 3
\* calls of add_file and reset, at most
MaxQueueCalls == 4

Indexes == 0..(MaxIndex - 1)

IdleThread == [pc |-> "idle", index |-> 0]

\* voice_player_manager.py:38-48  __init__
QueueInit ==
    /\ pending_files = [i \in Indexes |-> Absent]
    /\ next_index = 0
    /\ lock = None
    /\ qt = [t \in QueueThreads |-> IdleThread]
    /\ played = <<>>
    /\ add_calls = 0

\* the with block is left: the lock is released
Release(t) == IF lock = t THEN None ELSE lock

\* voice_player_manager.py:50  add_file(index, file_path) is called; the file
\* path names the thread that made the file
add_file(t, index) ==
    /\ qt[t].pc = "idle"
    /\ add_calls < MaxQueueCalls
    /\ add_calls' = add_calls + 1
    /\ qt' = [qt EXCEPT ![t] = [pc |-> "acquire", index |-> index]]
    /\ UNCHANGED <<pending_files, next_index, lock, played>>
    /\ UNCHANGED exceptQueue

\* voice_player_manager.py:72  reset() is called
reset(t) ==
    /\ qt[t].pc = "idle"
    /\ add_calls < MaxQueueCalls
    /\ add_calls' = add_calls + 1
    /\ qt' = [qt EXCEPT ![t] = [pc |-> "reset_acquire", index |-> 0]]
    /\ UNCHANGED <<pending_files, next_index, lock, played>>
    /\ UNCHANGED exceptQueue

\* a thread that enters the with block without taking the lock
AcquireNoLock(t) ==
    /\ qt[t].pc \in {"acquire", "reset_acquire"}
    /\ lock' = t
    /\ qt' = [qt EXCEPT ![t].pc = IF qt[t].pc = "acquire" THEN "put" ELSE "reset"]
    /\ UNCHANGED <<pending_files, next_index, played, add_calls>>
    /\ UNCHANGED exceptQueue

\* voice_player_manager.py:58, 74  with self.lock: the thread waits until no
\* thread holds the lock
Acquire(t) ==
    /\ qt[t].pc \in {"acquire", "reset_acquire"}
    /\ lock = None
    /\ lock' = t
    /\ qt' = [qt EXCEPT ![t].pc = IF qt[t].pc = "acquire" THEN "put" ELSE "reset"]
    /\ UNCHANGED <<pending_files, next_index, played, add_calls>>
    /\ UNCHANGED exceptQueue

\* voice_player_manager.py:59  self.pending_files[index] = file_path
Put(t) ==
    /\ qt[t].pc = "put"
    /\ pending_files' = [pending_files EXCEPT ![qt[t].index] = t]
    /\ qt' = [qt EXCEPT ![t].pc = "test"]
    /\ UNCHANGED <<next_index, lock, played, add_calls>>
    /\ UNCHANGED exceptQueue

\* the key self.next_index is in self.pending_files
NextIsPending == next_index \in Indexes /\ pending_files[next_index] # Absent

\* voice_player_manager.py:65  while self.next_index in self.pending_files;
\* when it is not, _process_queue and add_file return
ProcessQueueTest(t) ==
    /\ qt[t].pc = "test"
    /\ IF NextIsPending
       THEN /\ qt' = [qt EXCEPT ![t].pc = "play"]
            /\ lock' = lock
       ELSE /\ qt' = [qt EXCEPT ![t] = IdleThread]
            /\ lock' = Release(t)
    /\ UNCHANGED <<pending_files, next_index, played, add_calls>>
    /\ UNCHANGED exceptQueue

\* voice_player_manager.py:66-67  file_path = self.pending_files[
\* self.next_index]; self.player_manager.add_file(file_path); a missing key
\* raises out of add_file
ProcessQueuePlay(t) ==
    /\ qt[t].pc = "play"
    /\ IF NextIsPending
       THEN /\ played' = Append(played, [index |-> next_index,
                                         file_path |-> pending_files[next_index]])
            /\ qt' = [qt EXCEPT ![t].pc = "del"]
            /\ lock' = lock
       ELSE /\ played' = played
            /\ qt' = [qt EXCEPT ![t] = IdleThread]
            /\ lock' = Release(t)
    /\ UNCHANGED <<pending_files, next_index, add_calls>>
    /\ UNCHANGED exceptQueue

\* voice_player_manager.py:69-70  del self.pending_files[self.next_index];
\* self.next_index += 1; a missing key raises out of add_file
ProcessQueueDel(t) ==
    /\ qt[t].pc = "del"
    /\ IF NextIsPending
       THEN /\ pending_files' = [pending_files EXCEPT ![next_index] = Absent]
            /\ next_index' = next_index + 1
            /\ qt' = [qt EXCEPT ![t].pc = "test"]
            /\ lock' = lock
       ELSE /\ UNCHANGED <<pending_files, next_index>>
            /\ qt' = [qt EXCEPT ![t] = IdleThread]
            /\ lock' = Release(t)
    /\ UNCHANGED <<played, add_calls>>
    /\ UNCHANGED exceptQueue

\* voice_player_manager.py:75-76  pending_files = {}; next_index = 0, and
\* reset returns
ResetBody(t) ==
    /\ qt[t].pc = "reset"
    /\ pending_files' = [i \in Indexes |-> Absent]
    /\ next_index' = 0
    /\ played' = <<>>
    /\ qt' = [qt EXCEPT ![t] = IdleThread]
    /\ lock' = Release(t)
    /\ UNCHANGED add_calls
    /\ UNCHANGED exceptQueue

QueueNext ==
    \/ \E t \in QueueThreads : \E index \in Indexes : add_file(t, index)
    \/ \E t \in QueueThreads : reset(t)
    \/ \E t \in QueueThreads : Acquire(t)
    \/ \E t \in QueueThreads : Put(t)
    \/ \E t \in QueueThreads : ProcessQueueTest(t)
    \/ \E t \in QueueThreads : ProcessQueuePlay(t)
    \/ \E t \in QueueThreads : ProcessQueueDel(t)
    \/ \E t \in QueueThreads : ResetBody(t)

(***************************************************************************)
(* Specifications.                                                         *)
(***************************************************************************)
vars == <<tvars, evars, gvars, vvars, rvars, cvars, qvars>>

Init ==
    /\ TimerInit /\ ExecIdle /\ TurnIdle /\ VoiceInit /\ RegistryImported
    /\ GlobalsInit /\ QueueInit

\* the timer manager of a server that was just started
Spec == Init /\ [][TimerNext]_vars

\* the node wrapper, entered once with any entry state
\* the timer manager at rest, any entry state of the wrapper
InitExec ==
    /\ TimerInit /\ ExecInit /\ TurnIdle /\ VoiceInit /\ RegistryImported
    /\ GlobalsInit /\ QueueInit

SpecExec == InitExec /\ [][ExecNext]_vars

\* the server after the first client has connected and its session "A" was
\* activated: handle_session_activate("w1", {sessionId: "A"}) has returned
ConnectedInit ==
    /\ global_timer = NoTimer
    /\ active_session_id = "A"
    /\ session_mapping = [s \in Sockets |-> IF s = "w1" THEN "A" ELSE None]
    /\ timer = [t \in Timers |-> NoTimerObject]
    /\ wk = [w \in Workers |-> IdleWorker]
    /\ requests = 0
    /\ pushed = {}
    /\ sup = {}
    /\ disc = {}
    /\ canc = {}
    /\ touched = {}

InitConnected ==
    /\ ConnectedInit /\ ExecIdle /\ TurnIdle /\ VoiceInit /\ RegistryImported
    /\ GlobalsInit /\ QueueInit

SpecConnected == InitConnected /\ [][TimerNext]_vars

\* the turns of one process on its one checkpoint
InitTurn ==
    /\ TimerInit /\ ExecIdle /\ TurnInit /\ VoiceInit /\ RegistryImported
    /\ GlobalsInit /\ QueueInit

SpecTurn == InitTurn /\ [][TurnNext]_vars

\* the last turn of a process, from any checkpoint, with the recursion limit
\* of the graph; the thread of the turn keeps running
InitTurnLast ==
    /\ TimerInit /\ ExecIdle /\ TurnInitLast /\ VoiceInit /\ RegistryImported
    /\ GlobalsInit /\ QueueInit

TurnNextLast == TurnNext \/ GraphRecursionError

SpecTurnLast == InitTurnLast /\ [][TurnNextLast]_vars /\ WF_vars(TurnNextLast)

\* the voice files of one reply
SpecVoice == Init /\ [][VoiceNext]_vars

\* the registry while the node modules are imported
InitRegistry ==
    /\ TimerInit /\ ExecIdle /\ TurnIdle /\ VoiceInit /\ RegistryInit
    /\ GlobalsInit /\ QueueInit

SpecRegistry == InitRegistry /\ [][RegistryNext]_vars

\* callers of process_agent_request on the threads of the server
SpecGlobals == Init /\ [][GlobalsNext]_vars

\* threads calling add_file and reset of one OrderedVoiceQueue
SpecQueue == Init /\ [][QueueNext]_vars

(***************************************************************************)
(* Properties of the timer manager.                                        *)
(***************************************************************************)
\* the callback of timer t never began and t pushed no reminder
NeverExecuted(t) ==
    /\ timer[t].st \in {"waiting", "cancelled"}
    /\ \A r \in pushed : r.t # t

\* C1: in every reachable state at most one inactivity timer is armed
\* (started and neither fired nor cancelled).
C1_AtMostOneArmedTimer == Cardinality(ArmedTimers) <= 1

\* C1 case: some timer is armed
C1_SomeTimerArmed == ArmedTimers # {}

\* C2: a timer armed for session S that fires while active_session_id differs
\* from S at delivery pushes no inactivity_reminder: every reminder pushed is
\* for the session its timer was armed for.
C2_ActiveSessionGate == \A r \in pushed : r.to = r.for

\* C2 case: a fired timer reaches the gate while another session is active
C2_FiredWhileSuperseded ==
    \E t \in Timers : timer[t].st = "run_gate" /\ timer[t].sid # active_session_id

\* C3: a timer armed for A that had not fired when a set_active of another
\* session B was called and returned never executes its callback: no reminder
\* turn is run and no reminder is pushed on behalf of that arm.
C3_SupersededNeverExecutes == \A t \in sup : NeverExecuted(t)

\* C3 case: a set_active of another session has returned for an unfired timer
C3_Superseded == sup # {}

\* C4: a timer that had not fired when the transport of the active session
\* disconnected (the handler found the session active and returned) is
\* cancelled: its callback never executes and no reminder is pushed for it.
C4_DisconnectCancels == \A t \in disc : NeverExecuted(t)

\* C4 case: the disconnect of the active session returned for an unfired timer
C4_Disconnected == disc # {}

\* C5: once set_active or the disconnect handler has called cancel() on a
\* timer and returned, no inactivity_reminder of that timer is pushed.
C5_SynchronousCancel == \A r \in pushed : ~r.late

\* C5 case: a call that cancelled a timer has returned while its callback runs
C5_CancelledWhileRunning == \E t \in canc : Running(t)

\* the threads that have begun and not finished a section that reads or
\* writes active_session_id or the timer handle
InSection ==
    {<<"worker", w>> : w \in {v \in Workers :
        wk[v].pc \in {"sa_cancel", "sa_null", "sa_set", "sg_start",
                      "d_test", "d_cancel", "d_null", "d_clear"}}}
    \cup {<<"timer", t>> : t \in {u \in Timers : timer[u].st = "run_gate"}}

\* C6: the sections of set_active, arm, on_disconnect and the timer callback
\* that mutate active_session_id and the timer handle are serialized: no two
\* of them are in progress at the same time.
C6_Serialized == Cardinality(InSection) <= 1

\* C6 case: one such section is in progress
C6_InSection == InSection # {}

\* C7: whenever a timer is armed, the session it was armed for is the current
\* active_session_id.
C7_ArmedForActive == \A t \in ArmedTimers : timer[t].sid = active_session_id

\* C7 case: a timer is armed for the session that is active
C7_ArmedAndActive == \E t \in ArmedTimers : timer[t].sid = active_session_id

\* C8: at the step that completes a turn of a client session whose reply
\* carries inactivity_timeout <= 0, no timer is armed, whatever timers were
\* armed before or during the turn.
C8_NoTimerAfterNoArm ==
    [][\A w \in Workers :
          (wk[w].pc = "g_turn" /\ wk'[w].pc = "g_ret"
              /\ wk'[w].sid # None /\ wk'[w].timeout <= 0)
              => ArmedTimers' = {}]_vars

\* C8 case: such a turn has completed
C8_NoArmTurnDone ==
    \E w \in Workers : wk[w].pc = "g_ret" /\ wk[w].sid # None /\ wk[w].timeout <= 0

\* C9: a timer armed for A, with no step of set_active or disconnect after
\* it was started, that has run its callback to the end has pushed exactly
\* one reminder, addressed to A, and the timer handle was cleared.
C9_ReminderDelivered ==
    \A t \in Timers :
        (timer[t].st = "done" /\ t \notin touched)
            => {r.to : r \in {q \in pushed : q.t = t}} = {timer[t].sid}

\* C9 case: an undisturbed timer has run its callback to the end
C9_UndisturbedDone == \E t \in Timers : timer[t].st = "done" /\ t \notin touched

C11_RetryCap ==
    /\ \A e \in exhausted :
           e.calls = MAX_RETRY_COUNT /\ <<e.node, "failed">> \in snapshots
    /\ (tpc \in {"returned", "idle"} /\ exhausted # {}) => ~turn_result.success

\* C11 case: a turn has returned in which a node used up its retries
C11_TurnAfterExhaustion == tpc = "returned" /\ exhausted # {}

\* C12: when a message of the state a node returned lacks node_name,
\* node_type or timestamp in its node_info, or has no node_info, the wrapper
\* returns at once without calling the node again: it returns the state it
\* was entered with, with success False and an error that names the index
\* of the first message that is not valid.
C12_ValidationFailure ==
    (wpc = "done" /\ returned.error = "validation error") =>
        LET msgs == original_state.messages \o last_added IN
        /\ calls = retry_count + 1
        /\ returned.success = "False"
        /\ returned.messages = original_state.messages
        /\ returned.response = original_state.response
        /\ returned.next_node = original_state.next_node
        /\ error_index \in 0..(Len(msgs) - 1)
        /\ ~ValidateMessage(msgs[error_index + 1])
        /\ \A j \in 1..error_index : ValidateMessage(msgs[j])

\* C12 case: after a failed call, a call returns two messages that are both
\* not valid behind a valid transcript
C12_InvalidAfterRetry ==
    /\ wpc = "done"
    /\ returned.error = "validation error"
    /\ retry_count > 0
    /\ original_state.messages # <<>>
    /\ Len(last_added) = MaxAdded
    /\ \A i \in 1..Len(last_added) : ~ValidateMessage(last_added[i])

(***************************************************************************)
(* Properties of a turn.                                                   *)
(***************************************************************************)
\* C13: when the output of the LLM is not valid JSON or violates the schema,
\* the decision node is not called again in that turn, and the turn returns
\* success False with a response that is not empty.
C13_StructuralFailure ==
    /\ ~called_after_bad
    /\ (tpc = "returned" /\ bad_llm) =>
           (~turn_result.success /\ turn_result.response # "")

\* C13 case: the LLM gave an unusable output in the turn
C13_BadOutput == bad_llm

\* C14: when the last message of the transcript the decision node is
\* entered with is a tool message with name X, the tools its prompt lists
\* do not include X.
C14_NoSelfToolInPrompt ==
    prompt.last_tool # "" => prompt.last_tool \notin prompt.tools

\* C14 case: a prompt that lists tools was built behind a tool message
C14_PromptAfterTool == prompt.last_tool \in Tools /\ prompt.tools # {}

\* C15: in a turn the decision node never routes to the same tool twice in
\* a row: in decision, X, decision, Y with tool nodes X and Y, Y is not X.
C15_NoSameToolTwice ==
    \A i \in 1..(Len(trace) - 2) :
        (trace[i] \in Tools /\ trace[i + 1] = "unified_response")
            => trace[i + 2] # trace[i]

\* C15 case: two tool nodes ran in a turn with the decision node between
C15_TwoToolRuns ==
    \E i \in 1..(Len(trace) - 2) :
        trace[i] \in Tools /\ trace[i + 1] = "unified_response"
            /\ trace[i + 2] \in Tools

\* C16: the state a tool node returns, on success and on failure, has
\* next_node = "unified_response".
C16_ToolReturnsToDecision == tool_ret \in {"", "unified_response"}

\* C16 case: a tool node has returned
C16_ToolReturned == tool_ret # ""

\* C17: when the output of the LLM has requires_tool false, the state the
\* decision node returns has next_node = "end".
C17_DirectReplyEnds ==
    (dec_ret.called /\ ~dec_ret.requires_tool) => dec_ret.next_node = "end"

\* C17 case: behind a tool message the decision node answered without a tool
C17_DirectReplyAfterTool ==
    /\ dec_ret.called
    /\ ~dec_ret.requires_tool
    /\ prompt.last_tool \in Tools

\* C18: the voice_file_ready events of one reply are emitted in increasing
\* order of the fragment index, and is_last is true on no event but the last.
C18_OrderedVoiceEvents ==
    /\ \A i, j \in 1..Len(emitted) :
           i < j => emitted[i].index < emitted[j].index
    /\ \A i \in 1..(Len(emitted) - 1) : ~emitted[i].is_last

\* C18 case: the events of a reply of three fragments or more were emitted
C18_ReplyEmitted == v_pc = "done" /\ Len(emitted) >= 3

\* C19: when the external call of a tool node failed, the transcript the
\* decision node is entered with next ends with a tool message that reports
\* the error.
C19_ToolFailureSeen ==
    (tpc = "run" /\ gnode = "unified_response" /\ tool_failed) =>
        /\ channels.messages # <<>>
        /\ channels.messages[Len(channels.messages)].type = "tool"
        /\ channels.messages[Len(channels.messages)].err

\* C19 case: the decision node is entered after a tool node whose call failed
C19_DecisionAfterToolFailure ==
    tpc = "run" /\ gnode = "unified_response" /\ tool_failed

\* the timer /generate arms for a timeout: none when it is not positive
ArmedFor(t) == IF t > 0 THEN t ELSE 0

\* C20: after a turn of /generate that failed fatally, the result has
\* success False and the timer is armed with the last valid
\* inactivity_timeout or with the default of 60 seconds.
C20_FatalFailureTimeout ==
    (tpc = "idle" /\ fatal /\ ~reminder) =>
        /\ ~turn_result.success
        /\ armed_timeout \in {ArmedFor(DefaultTimeout), ArmedFor(last_valid)}

\* C20 case: /generate has armed the timer after a turn that failed fatally
C20_ArmedAfterFatal == tpc = "idle" /\ fatal /\ ~reminder


\* C21: in a turn whose files carry bytes, nothing save_state_log writes (the
\* state a node returned, the "{node}_failed" state, the final state) holds
\* the bytes of a file.
C21_NoBytesInSnapshots == \A l \in logged : ~l.bytes

\* C21 case: the bytes of a file went to the LLM, and the state of the
\* decision node, of a tool node that used up its retries and the final state
\* were written
C21_SnapshotsAfterBytes ==
    /\ prompt.bytes
    /\ \E l \in logged : l.name = "final_state"
    /\ \E l \in logged : l.name = "unified_response"
    /\ \E l \in logged : l.name = "weather_search_failed"

\* C22: the transcript a turn of one client session runs on, and sends to the
\* LLM, holds no message that was appended in a turn of another client
\* session.
C22_TranscriptsIsolated ==
    tpc = "run" =>
        \A i \in 1..Len(appended_in) : client_of[appended_in[i]] = client_of[turns]

\* C22 case: a turn of a client session runs after a turn of another one
C22_TurnOfOtherSession ==
    /\ tpc = "run"
    /\ turns = 2
    /\ client_of[1] # client_of[2]

\* C23: the available_nodes a turn is seeded with do not hold the decision
\* node, and no call of the decision node sets next_node to the decision
\* node.
C23_DecisionNodeNotOffered ==
    /\ tpc = "run" => "unified_response" \notin channels.available_nodes
    /\ dec_ret.next_node # "unified_response"

\* C24: a turn of /generate in which the one node run is the decision node
\* and its reply is direct (requires_tool false, a reply that is not empty,
\* inactivity_timeout t > 0) returns success True, has appended one human
\* message and one assistant message behind it, and the timer is armed with
\* t for the session of the request.
C24_DirectReplyTurn ==
    (/\ tpc = "idle"
     /\ turns > 0
     /\ ~reminder
     /\ ~fatal
     /\ trace = <<"unified_response">>
     /\ dec_ret.called /\ ~dec_ret.requires_tool /\ dec_ret.success
     /\ channels.inactivity_timeout > 0) =>
        LET mine == {i \in 1..Len(appended_in) : appended_in[i] = turns}
            first == Len(appended_in) - 1 IN
        /\ turn_result.success
        /\ mine = {first, first + 1}
        /\ first >= 1
        /\ channels.messages[first].type = "human"
        /\ channels.messages[first + 1].type = "ai"
        /\ armed_timeout = channels.inactivity_timeout
        /\ armed_session = client_of[turns]

\* C24 case: a direct reply in the second turn, the timer armed
C24_DirectReplyReturned ==
    /\ tpc = "idle"
    /\ turns = 2
    /\ ~reminder
    /\ trace = <<"unified_response">>
    /\ dec_ret.called /\ ~dec_ret.requires_tool /\ dec_ret.success
    /\ armed_timeout = 30

\* C25: every state a node returns (the decision node on its reply, tool and
\* error paths, weather_search, memory_search, failed calls included) holds
\* only messages that validate_messages accepts: each has a node_info with
\* node_name, node_type and timestamp.
C25_ReturnedMessagesValid ==
    /\ ~returned_invalid
    /\ ValidateMessages(channels.messages)

\* C25 case: in one turn the decision node returned from its error path and
\* a tool node returned from a failed call
C25_ErrorPathsReturned ==
    /\ bad_llm
    /\ tool_failed
    /\ Len(channels.messages) >= 2

\* C28: when a wrapped node has returned, the node the graph runs next is the
\* one the next_node of the returned state names.
C28_RoutedByNextNode == routed.from # "" => routed.to = routed.next_node

\* C29: after every call of the decision node, whatever the LLM returned,
\* next_node is weather_search, memory_search or end.
C29_DecisionNextNode ==
    dec_ret.called => dec_ret.next_node \in Tools \cup {"end"}

\* C30: the step of the end node leaves every field of the state as it was
\* but success, which it sets; the node is not retried and is no wrapped
\* node run.
C30_EndPassThrough ==
    [][(tpc = "run" /\ gnode = "end") =>
          /\ channels' = [channels EXCEPT !.success = TRUE]
          /\ tpc' = "returned"
          /\ turn_result'.success
          /\ UNCHANGED <<n_retry, trace, exhausted, returned_invalid>>]_vars

\* C30 case: the end node has run on a state with a reply and a transcript
C30_EndNodeRan ==
    /\ tpc = "returned"
    /\ ~fatal
    /\ channels.success
    /\ channels.response # ""
    /\ channels.messages # <<>>

\* C27: the state a retry calls the node with is the state the wrapper was
\* entered with but for error, which holds the error of the failed call; so
\* is the state returned when the retries are used up, but for success and
\* error: messages, response, next_node and inactivity_timeout of a failed
\* call are in neither.
C27_RetryStartsFromSnapshot ==
    /\ (wpc = "loop" /\ retry_count > 0) =>
           /\ state = [original_state EXCEPT !.error = state.error]
           /\ state.error \in {"node error", "node failed", "no success flag"}
    /\ (wpc = "done" /\ returned.error = "retries exhausted") =>
           /\ returned.messages = original_state.messages
           /\ returned.response = original_state.response
           /\ returned.next_node = original_state.next_node
           /\ returned.inactivity_timeout = original_state.inactivity_timeout

\* C27 case: the retries are used up and the last failed call had appended
\* messages
C27_ExhaustedAfterWrites ==
    /\ wpc = "done"
    /\ returned.error = "retries exhausted"
    /\ calls = MAX_RETRY_COUNT
    /\ last_added # <<>>

\* C26: register_node for a name that is registered raises an error and
\* leaves the entry of the name as it was.
C26_ReRegistrationFails ==
    last_registered.was.registered =>
        /\ last_registered.raised
        /\ NODE_REGISTRY[last_registered.name] = last_registered.was

\* C26 case: a name was registered for a second time, with another function
C26_RegisteredTwice ==
    /\ last_registered.was.registered
    /\ last_registered.was.function # NODE_REGISTRY[last_registered.name].function

\* C31: a decision output with requires_tool false and an empty response makes
\* the node return success false, the state is rolled back and the node is
\* called again, and the turn does not end with an empty reply.
C31_EmptyReplyRetried ==
    dec_ret.empty =>
        /\ ~dec_ret.success
        /\ (tpc = "run" /\ gnode = "unified_response" /\ n_retry > 0) =>
               AIMessage(TRUE) \notin Range(channels.messages)
        /\ ~(tpc = "returned" /\ ~fatal /\ turn_result.success
                /\ turn_result.response = "")


C33_OwnInputRead ==
    \A c \in Callers :
        req[c].pc = "process" =>
            /\ req[c].read_text = req[c].input_text
            /\ req[c].read_files = req[c].files_data

\* C35: OrderedVoiceQueue hands the files to the player in the order of the
\* indexes 0, 1, 2, ... without a gap, and no index twice, however the calls
\* of add_file arrive and interleave.
C35_PlayedInIndexOrder ==
    \A k \in 1..Len(played) : played[k].index = k - 1

\* C35 witness: files added out of order by both threads were all handed to
\* the player
C35_AllPlayedOutOfOrder ==
    /\ Len(played) = MaxIndex
    /\ \E k \in 1..Len(played) : played[k].file_path = "t1"
    /\ \E k \in 1..Len(played) : played[k].file_path = "t2"
    /\ \A t \in QueueThreads : qt[t].pc = "idle"
    /\ add_calls = MaxIndex


IsPrefix(a, b) == Len(a) <= Len(b) /\ SubSeq(b, 1, Len(a)) = a

\* C34: within a turn the transcript is append-only: over every step of the
\* executor (a node returns with success, a failed call is rolled back, the
\* retries are used up, the end node) the messages before the step are a
\* prefix of the messages after it.
C34_AppendOnly ==
    [][tpc = "run" => IsPrefix(channels.messages, channels'.messages)]_vars

\* C34 witness: a turn in which the decision node returned with success and
\* the weather node used up its retries
C34_GrownAndRolledBack ==
    /\ tpc = "run"
    /\ turns = 1
    /\ trace = <<"unified_response", "weather_search">>
    /\ \E e \in exhausted : e.node = "weather_search"
    /\ Len(channels.messages) = 2


\* C36: a timer that was started, whose callback has not finished and on
\* which cancel() was not called is the timer global_timer refers to; this
\* holds for a timer armed while the callback of an older timer runs, when
\* that callback finishes.
C36_HandleTracksLiveTimer ==
    \A t \in Timers :
        (Armed(t) \/ (Running(t) /\ t \notin touched)) => global_timer = t


C38_SuccessHasReply ==
    (tpc = "returned" /\ ~fatal /\ turn_result.success) =>
        /\ turn_result.response # ""
        /\ channels.messages # <<>>
        /\ channels.messages[Len(channels.messages)].type = "ai"
        /\ appended_in[Len(appended_in)] = turns


\* C39: a user turn adds exactly one human message to the transcript, also
\* when it goes through tools and when a tool node fails and is rolled back
\* before the decision node runs again.
C39_OneHumanMessagePerTurn ==
    (tpc = "returned" /\ ~reminder /\ ~fatal) =>
        Cardinality({i \in 1..Len(channels.messages) :
                        /\ appended_in[i] = turns
                        /\ channels.messages[i].type = "human"}) = 1


\* C40: when the voice files of a reply are done and a voice_file_ready event
\* was emitted for it, exactly one of its events has is_last true, also when
\* generate_voice_part failed for some of the sentences.
C40_OneLastEvent ==
    (v_pc = "done" /\ emitted # <<>>) =>
        Cardinality({k \in 1..Len(emitted) : emitted[k].is_last}) = 1


=============================================================================
